---------------------------- MODULE Spec2Model ----------------------------
(***************************************************************************)
(* Model of the request-dispatch engine of the school-management API:      *)
(*   - ApiHandler (managers/api/Api.manager.js): route table builder and   *)
(*     per-request dispatcher (mw, onDone, _exec);                         *)
(*   - ResponseDispatcher.dispatch: the response envelope;                 *)
(*   - the __token and __device middleware units;                          *)
(*   - the middleware pipeline executor (VirtualStack / Bolt) and the      *)
(*     parameter introspector (getParamNames), whose sources are not part  *)
(*     of the source tree and which follow the written specification.      *)
(***************************************************************************)
EXTENDS Integers, Sequences, FiniteSets, TLC

(***************************************************************************)
(* Bounds of the model.                                                    *)
(***************************************************************************)
\* longest httpExposed list the route-table builder is given
MaxDecls == 2
\* number of requests the server receives in one behaviour
MaxReq == 2

\* the number of entity requests served
MaxOps == 3

(***************************************************************************)
(* JavaScript values.                                                      *)
(***************************************************************************)
\* the value `undefined` (a missing property, a missing argument)
Undefined == <<"undefined">>

\* strings, lists and objects are tagged tuples
Str(s) == <<"str", s>>
Arr(xs) == <<"arr", xs>>
Obj(o) == <<"obj", o>>

\* ToBoolean: undefined, null, false, 0 and "" are falsy; objects and arrays
\* (also empty ones) are truthy
Truthy(v) ==
  /\ v # Undefined
  /\ v # <<"null">>
  /\ v # <<"bool", FALSE>>
  /\ v # <<"num", 0>>
  /\ v # Str("")

\* { ...a, ...b }: the keys of both, b's value where both have the key
Spread(a, b) ==
  [k \in (DOMAIN a) \cup (DOMAIN b) |-> IF k \in DOMAIN b THEN b[k] ELSE a[k]]

\* the empty object {}
EmptyObj == [k \in {} |-> Undefined]

\* an object with the one property k: v
Prop(k, v) == [x \in {k} |-> v]


(***************************************************************************)
(* The managers the route table is built from.                             *)
(***************************************************************************)
\* the middleware units the loader finds (__token and __device have their
\* source in mws/; the others are the units the loader's documentation lists)
MwNames == {"__token", "__device", "__query", "__headers"}

\* mwsRepo: the middleware registry, name -> unit
mwsRepo == [n \in MwNames |-> n]

\* names that begin with the two-character marker "__"
MarkedNames == MwNames \cup {"__ghost"}

\* String.prototype.startsWith("__") of a cleaned parameter: a parameter is
\* the list of its tokens, and only a leading name token can carry the marker
StartsWithMarker(param) == Len(param) > 0 /\ param[1] \in MarkedNames

\* the declared parameters of the handler methods of module "thing"
\* (single destructured-object convention), in declaration order
HandlerParams ==
  [ createThing |-> <<"name", "__token">>,
    tri         |-> <<"__token", "id", "__query", "__headers">>,
    plain       |-> <<"a", "b">>,
    noArgs      |-> <<>>,
    bad         |-> <<"x", "__ghost">> ]

\* the method names of module "thing"
ThingMethods == DOMAIN HandlerParams

\* Object.keys(this.managers) in insertion order; responseDispatcher has no
\* httpExposed property
ManagerKeys == <<"responseDispatcher", "thing">>

\* getParamNames(fn, method, module): the text between the parentheses of
\* the method's source, without whitespace, as its comma-separated pieces;
\* a configuration error when the method is no function of the module
getParamNames(method) ==
  IF method \notin ThingMethods THEN <<"throw">>
  ELSE LET ps == HandlerParams[method]
           n == Len(ps)
       IN <<"text",
            [i \in 1..n |->
               (IF i = 1 THEN <<"{">> ELSE <<>>) \o <<ps[i]>>
               \o (IF i = n THEN <<"}">> ELSE <<>>)]>>

\* String.prototype.split(","): the empty string splits into one empty piece
SplitComma(text) == IF Len(text) = 0 THEN << <<>> >> ELSE text

RECURSIVE TrimLeft(_)
TrimLeft(p) == IF Len(p) > 0 /\ Head(p) = " " THEN TrimLeft(Tail(p)) ELSE p

RECURSIVE TrimRight(_)
TrimRight(p) ==
  IF Len(p) > 0 /\ p[Len(p)] = " " THEN TrimRight(SubSeq(p, 1, Len(p) - 1)) ELSE p

\* String.prototype.trim
Trim(p) == TrimRight(TrimLeft(p))

\* String.prototype.replace(tok, ""): removes the first occurrence only
RECURSIVE ReplaceFirst(_, _)
ReplaceFirst(p, tok) ==
  IF Len(p) = 0 THEN p
  ELSE IF Head(p) = tok THEN Tail(p)
  ELSE <<Head(p)>> \o ReplaceFirst(Tail(p), tok)

\* the clean-up of one parameter piece
CleanParam(p) == ReplaceFirst(ReplaceFirst(Trim(p), "{"), "}")

(***************************************************************************)
(* ApiHandler constructor: the route table builder.                        *)
(***************************************************************************)
\* this.managers[moduleName][this.prop]: the httpExposed list of a manager,
\* given the list `decls` of module "thing"; a declaration is the list of
\* its "="-separated parts
HttpExposedOf(moduleName, decls) ==
  IF moduleName = "thing" THEN Arr(decls) ELSE Undefined

\* the tables of a fresh ApiHandler: this.methodMatrix = {}, this.mwsStack = {}
EmptyTables ==
  [ methodMatrix |-> [m \in {} |-> EmptyObj],
    mwsStack     |-> [k \in {} |-> <<>>],
    threw        |-> <<>> ]

\* methodDef.includes("=") ? parts[0] : "post"
HttpMethodOf(methodDef) == IF Len(methodDef) > 1 THEN methodDef[1] ELSE "post"

\* methodDef.includes("=") ? parts[1] : methodDef
ManagerMethodOf(methodDef) == IF Len(methodDef) > 1 THEN methodDef[2] ELSE methodDef[1]

\* this.methodMatrix[moduleName][httpMethod].push(managerMethod), the list
\* created on first use
PushMethod(mm, moduleName, httpMethod, managerMethod) ==
  LET row == mm[moduleName]
  IN [mm EXCEPT ![moduleName] =
        IF httpMethod \in DOMAIN row
        THEN [row EXCEPT ![httpMethod] = Append(@, managerMethod)]
        ELSE Spread(row, Prop(httpMethod, <<managerMethod>>))]

\* the registry check left out: an unknown middleware name is accepted
MissingMiddlewareIgnored(param) == FALSE

\* !this.mwsRepo[param]
MissingMiddleware(param) == ~(Len(param) = 1 /\ param[1] \in DOMAIN mwsRepo)

\* one round of params.forEach: the stack of the route is created when it
\* is missing; a marked parameter is checked against the registry and pushed
ParamStep(acc, key, param) ==
  LET stacks == IF key \in DOMAIN acc.mwsStack
                THEN acc.mwsStack
                ELSE Spread(acc.mwsStack, Prop(key, <<>>))
  IN IF ~StartsWithMarker(param)
     THEN [acc EXCEPT !.mwsStack = stacks]
     ELSE IF MissingMiddleware(param)
     THEN [acc EXCEPT !.mwsStack = stacks,
                      !.threw = <<"Unable to find middleware", param, key>>]
     ELSE [acc EXCEPT !.mwsStack = [stacks EXCEPT ![key] = Append(@, param[1])]]

RECURSIVE ForEachParam(_, _, _, _)
ForEachParam(acc, key, params, i) ==
  IF i > Len(params) \/ acc.threw # <<>> THEN acc
  ELSE ForEachParam(ParamStep(acc, key, params[i]), key, params, i + 1)

\* the body of this.managers[moduleName][this.prop].forEach
DeclStep(acc, moduleName, methodDef) ==
  LET httpMethod == HttpMethodOf(methodDef)
      managerMethod == ManagerMethodOf(methodDef)
      pushed == [acc EXCEPT !.methodMatrix =
                   PushMethod(@, moduleName, httpMethod, managerMethod)]
      names == getParamNames(managerMethod)
  IN IF names[1] = "throw"
     THEN [pushed EXCEPT !.threw = <<"not a function", managerMethod, moduleName>>]
     ELSE LET params == [i \in DOMAIN SplitComma(names[2]) |->
                           CleanParam(SplitComma(names[2])[i])]
          IN ForEachParam(pushed, <<moduleName, managerMethod>>, params, 1)

RECURSIVE ForEachDecl(_, _, _, _)
ForEachDecl(acc, moduleName, decls, i) ==
  IF i > Len(decls) \/ acc.threw # <<>> THEN acc
  ELSE ForEachDecl(DeclStep(acc, moduleName, decls[i]), moduleName, decls, i + 1)

\* the body of Object.keys(this.managers).forEach
ManagerStep(acc, moduleName, decls) ==
  LET exposed == HttpExposedOf(moduleName, decls)
  IN IF ~Truthy(exposed) THEN acc
     ELSE ForEachDecl(
            [acc EXCEPT !.methodMatrix = Spread(@, Prop(moduleName, EmptyObj))],
            moduleName, exposed[2], 1)

RECURSIVE ForEachManager(_, _, _)
ForEachManager(acc, decls, i) ==
  IF i > Len(ManagerKeys) \/ acc.threw # <<>> THEN acc
  ELSE ForEachManager(ManagerStep(acc, ManagerKeys[i], decls), decls, i + 1)

\* new ApiHandler({managers, mwsRepo, prop: "httpExposed"}): the tables, or
\* the error it threw (then no ApiHandler and no table exists)
ApiHandlerConstructor(decls) ==
  LET acc == ForEachManager(EmptyTables, decls, 1)
  IN IF acc.threw # <<>> THEN [EmptyTables EXCEPT !.threw = acc.threw] ELSE acc

(***************************************************************************)
(* ResponseDispatcher.dispatch: the response envelope.                     *)
(***************************************************************************)
Bool(b) == <<"bool", b>>
Num(n) == <<"num", n>>

\* obj[k], `undefined` when the object has no such property
Get(o, k) == IF k \in DOMAIN o THEN o[k] ELSE Undefined

\* a || b
OrElse(a, b) == IF Truthy(a) THEN a ELSE b

\* the status taken from ok alone, whatever code the caller passed
StatusCodeIgnoringCode(ok, code) ==
  IF ok = Bool(TRUE) THEN Num(200) ELSE Num(400)

\* let statusCode = code ? code : ok == true ? 200 : 400
StatusCode(ok, code) ==
  IF Truthy(code) THEN code ELSE IF ok = Bool(TRUE) THEN Num(200) ELSE Num(400)

\* a template string `... ${a} ...`: its literal text and the values put in
Tmpl(text, a, b) == <<"tmpl", text, a, b>>

\* typeof v === "string"
IsString(v) == v[1] \in {"str", "tmpl"}

\* a map that leaves every element of the list as it is
NormalizeElementUnchanged(e) == e

\* errors.map(e => typeof e === "string" ? {message: e} : e)
NormalizeElement(e) == IF IsString(e) THEN Obj(Prop("message", e)) ELSE e

\* the errorArray of dispatch: a string is wrapped in one {message}, a list is
\* mapped element-wise, an object is wrapped in a one-element list
ErrorArray(errors) ==
  IF ~Truthy(errors) THEN <<>>
  ELSE IF IsString(errors) THEN <<Obj(Prop("message", errors))>>
  ELSE IF errors[1] = "arr"
       THEN [i \in DOMAIN errors[2] |-> NormalizeElement(errors[2][i])]
  ELSE IF errors[1] = "obj" THEN <<errors>>
  ELSE <<>>

\* new Date().toISOString()
Timestamp == Str("ISO-8601")

\* dispatch(res, {ok, data, code, errors, message, msg}): the status given to
\* res.status and the body given to send
Dispatch(params) ==
  LET ok == Get(params, "ok")
      statusCode == StatusCode(ok, Get(params, "code"))
      errorArray == ErrorArray(Get(params, "errors"))
      responseObj == [ ok        |-> OrElse(ok, Bool(FALSE)),
                       code      |-> statusCode,
                       data      |-> OrElse(Get(params, "data"), Obj(EmptyObj)),
                       timestamp |-> Timestamp ]
      withErrors == IF Len(errorArray) > 0
                    THEN Spread(responseObj, Prop("errors", Arr(errorArray)))
                    ELSE responseObj
      finalMessage == OrElse(Get(params, "msg"),
                        OrElse(Get(params, "message"),
                          IF Truthy(ok) THEN <<"null">> ELSE Str("Request failed")))
  IN [ status |-> statusCode,
       body   |-> IF finalMessage # <<"null">>
                  THEN Spread(withErrors, Prop("message", finalMessage))
                  ELSE withErrors ]

(***************************************************************************)
(* TokenManager and the __token and __device middleware units.             *)
(***************************************************************************)
\* the tokens a client may present: one signed by this server and still
\* valid, one with a forged signature, one that has expired
Tokens == {"tokA", "forged", "expired"}

\* the accounts whose access tokens the model follows: user id -> the email
\* and role the token was signed with
Signed ==
  [ sa  |-> [email |-> "root@x.io", role |-> "superadmin"],
    adm |-> [email |-> "adm@x.io", role |-> "school_admin"] ]

\* the access token of each of these accounts, as a header carries it
AccessToken == [sa |-> "tok_sa", adm |-> "tok_adm"]

LoginTokens == {AccessToken[u] : u \in DOMAIN AccessToken}

\* the account a login token was signed for
Holder(token) == CHOOSE u \in DOMAIN AccessToken : AccessToken[u] = token

\* genLongToken({userId, email, role}): the payload that is signed
LongTokenPayload(userId, email, role) ==
  Obj([ userId |-> Str(userId), email |-> Str(email), role |-> Str(role),
        type |-> Str("access") ])

\* jwt.verify with the expiry check left out (ignoreExpiration)
VerifyTokenIgnoringExpiry(token) ==
  IF token \in {"tokA", "expired"}
  THEN Obj([userId |-> Str("u1"), role |-> Str("school_admin"), type |-> Str("access")])
  ELSE IF token \in LoginTokens
  THEN LongTokenPayload(Holder(token), Signed[Holder(token)].email,
                        Signed[Holder(token)].role)
  ELSE <<"null">>

\* jwt.verify inside _verifyToken: the payload, or null when verify throws
\* (the exception is caught and logged there)
VerifyToken(token) ==
  IF token = "tokA"
  THEN Obj([userId |-> Str("u1"), role |-> Str("school_admin"), type |-> Str("access")])
  ELSE IF token \in LoginTokens
  THEN LongTokenPayload(Holder(token), Signed[Holder(token)].email,
                        Signed[Holder(token)].role)
  ELSE <<"null">>

\* verifyLongToken({token})
verifyLongToken(token) == IF token = "" THEN <<"null">> ELSE VerifyToken(token)

\* an Authorization header is <<"hdr", scheme, credentials>>:
\* authHeader.startsWith("Bearer ") and authHeader.substring(7)
BearerToken(authHeader) ==
  IF Truthy(authHeader) /\ authHeader[2] = "Bearer" THEN authHeader[3] ELSE ""

\* a token lookup that prefers the query parameter to the headers
ExtractTokenQueryFirst(req) ==
  IF Truthy(req.qtoken) THEN req.qtoken[2]
  ELSE IF Truthy(req.token) THEN req.token[2]
  ELSE BearerToken(req.authorization)

\* step 1 of the __token unit: the token of the request, "" when none
ExtractToken(req) ==
  LET fromAuth == BearerToken(req.authorization)
      fromHeader == IF fromAuth = "" /\ Truthy(req.token) THEN req.token[2] ELSE fromAuth
  IN IF fromHeader = "" /\ Truthy(req.qtoken) THEN req.qtoken[2] ELSE fromHeader

\* the __token unit up to its outcome: <<"next", decoded>> when it calls the
\* continuation, <<"dispatch", params>> when it answers the request itself
TokenMw(req) ==
  LET token == ExtractToken(req)
      decoded == verifyLongToken(token)
  IN IF token = ""
     THEN <<"dispatch", [ ok |-> Bool(FALSE), code |-> Num(401),
            errors |-> Str("Authentication required. Please provide a valid token.") ]>>
     ELSE IF ~Truthy(decoded)
     THEN <<"dispatch", [ ok |-> Bool(FALSE), code |-> Num(401),
            errors |-> Str("Invalid or expired token") ]>>
     ELSE <<"next", decoded>>

\* the catch-all of the __token unit around its whole body, the call of the
\* continuation included
TokenMwCatch ==
  [ ok |-> Bool(FALSE), code |-> Num(500), errors |-> Str("Authentication service error") ]

\* the __device unit: always continues with {ip, agent}
DeviceMw(req) == <<"next", Obj([ip |-> Str("N/A"), agent |-> Str("N/A")])>>

(***************************************************************************)
(* State.                                                                  *)
(***************************************************************************)
VARIABLES
  httpExposed,   \* the httpExposed list of manager "thing"
  phase,         \* "new": before new ApiHandler; "ok": built; "threw": startup failed
  methodMatrix,  \* ApiHandler.methodMatrix: module -> verb -> method names
  mwsStack,      \* ApiHandler.mwsStack: <<module, method>> -> middleware names
  startupError,  \* the error the constructor threw, <<>> when none
  rebuilt,       \* the tables of a second ApiHandler instance, <<>> before it is built
  request,       \* per request: the req object, NoRequest before it arrives
  bolt,          \* per request: the pipeline run
  ran,           \* per request: the middleware units executed, in order
  executing,     \* per request: the units started and not yet resolved
  calls,         \* per request: the arguments of the handler invocations
  handler,       \* per request: "idle", "running" or "returned"
  outcomes,      \* per request: how its handler settled (a result, or <<"throw", msg>>)
  sent,          \* per request: what was written to its res, in order
  alive,         \* FALSE once the process has exited
  users,         \* mongomodels.user: id -> document
  schools,       \* mongomodels.school: id -> document
  classrooms,    \* mongomodels.classroom: id -> document
  cache,         \* the cache keys that are set
  loggedOut,     \* the tokens logoutUser has succeeded for
  changed,       \* user id -> the password of its last successful changePassword
  lastOp,        \* the entity request served last: its input and its outcome
  served,        \* the number of entity requests served
  loaded,        \* the steps ManagersLoader.load has taken, in order
  called,        \* the function called last: its name, arguments and result
  room,          \* one classroom document
  updating,      \* the updateClassroom call in flight: its position and what it read
  signup         \* per registerUser call in flight: its position, input and result

buildVars == <<httpExposed, phase, methodMatrix, mwsStack, startupError, rebuilt>>
reqVars == <<request, bolt, ran, executing, calls, handler, outcomes, sent, alive>>
entVars == <<users, schools, classrooms, cache, loggedOut, changed, lastOp, served>>
auxVars == <<loaded, called, room, updating, signup>>
vars == <<httpExposed, phase, methodMatrix, mwsStack, startupError, rebuilt,
          request, bolt, ran, executing, calls, handler, outcomes, sent, alive,
          users, schools, classrooms, cache, loggedOut, changed, lastOp, served,
          loaded, called, room, updating, signup>>

Reqs == 1..MaxReq

\* the req of a request that has not arrived
NoRequest ==
  [ method |-> "none", moduleName |-> "", fnName |-> "", authorization |-> Undefined,
    token |-> Undefined, qtoken |-> Undefined, body |-> Undefined ]

NoBolt == [state |-> "None", stack |-> <<>>, index |-> 0, results |-> EmptyObj]

IdleRequests ==
  /\ request = [r \in Reqs |-> NoRequest]
  /\ bolt = [r \in Reqs |-> NoBolt]
  /\ ran = [r \in Reqs |-> <<>>]
  /\ executing = [r \in Reqs |-> {}]
  /\ calls = [r \in Reqs |-> <<>>]
  /\ handler = [r \in Reqs |-> "idle"]
  /\ outcomes = [r \in Reqs |-> <<>>]
  /\ sent = [r \in Reqs |-> <<>>]
  /\ alive = TRUE

(***************************************************************************)
(* Start-up: the route table builder.                                      *)
(***************************************************************************)
\* the exposure declarations a module may carry
DeclSet ==
  { <<"createThing">>, <<"post", "createThing">>, <<"get", "tri">>, <<"post", "tri">>,
    <<"get", "plain">>, <<"noArgs">>, <<"bad">>, <<"get", "nope">> }

RECURSIVE SeqsUpTo(_, _)
SeqsUpTo(S, n) ==
  IF n = 0 THEN { <<>> }
  ELSE LET shorter == SeqsUpTo(S, n - 1)
       IN shorter \cup { Append(q, x) : q \in shorter, x \in S }

\* bcrypt.hash(password, 10)
Hash(password) == <<"bcrypt", password>>

\* the passwords the accounts were registered with
Registered == [sa |-> "pw-first", adm |-> "pw-first"]

\* the user document registerUser creates; schoolId is the school the account
\* has been assigned to, undefined when none
UserDoc(id, username, email, password, role, schoolId) ==
  [ id |-> Str(id), username |-> Str(username), email |-> Str(email),
    password |-> Hash(password),
    role |-> Str(role), status |-> Str("active"), schoolId |-> schoolId,
    lastLogin |-> Undefined, updatedAt |-> Timestamp, isDeleted |-> Bool(FALSE) ]

SchoolDoc(id, shortCode) ==
  [ id |-> Str(id), shortCode |-> Str(shortCode), name |-> Str("School"),
    isDeleted |-> Bool(FALSE) ]

ClassroomDoc(id, schoolId, section) ==
  [ id |-> Str(id), schoolId |-> Str(schoolId), section |-> Str(section),
    name |-> Str("Class"), enrolledCount |-> Num(0), isDeleted |-> Bool(FALSE) ]

\* no entity request served yet
NoOp ==
  [ op |-> "none", token |-> "", target |-> "", arg1 |-> "", arg2 |-> "",
    protected |-> FALSE, status |-> Num(0), invoked |-> FALSE, touched |-> {},
    afterLogout |-> FALSE, holds |-> "" ]

\* the database before the first entity request: a superadmin, the admin of
\* school s1, two schools with one classroom each
EntitiesAtStart ==
  /\ users = [ sa  |-> UserDoc("sa", "root", Signed.sa.email, Registered.sa, "superadmin", Undefined),
               adm |-> UserDoc("adm", "adm", Signed.adm.email, Registered.adm, "school_admin", Str("s1")) ]
  /\ schools = [ s1 |-> SchoolDoc("s1", "AAA"), s2 |-> SchoolDoc("s2", "BBB") ]
  /\ classrooms = [ c1 |-> ClassroomDoc("c1", "s1", "A"),
                    c2 |-> ClassroomDoc("c2", "s2", "A") ]
  /\ cache = {}
  /\ loggedOut = {}
  /\ changed = [u \in DOMAIN Registered |-> ""]
  /\ lastOp = NoOp
  /\ served = 0

\* the entity managers fileLoader finds under managers/entities
EntityManagers == {"classroom", "school", "student", "user"}

\* the steps of ManagersLoader.load up to the executor, the entity managers
\* in one of the orders fileLoader may give them
LoadedBeforeApi ==
  << "responseDispatcher", "liveDb", "mwsRepo", "token", "classroom", "school",
     "student", "user", "shark", "timeMachine", "mwsExec" >>

\* no function called yet
NoCall == [fn |-> "none", args |-> <<>>, result |-> <<>>]

\* no classroom document loaded
NoRoom == [capacity |-> 0, enrolledCount |-> 0, enrolledStudents |-> <<>>]

\* no updateClassroom call in flight
NoUpdate == [pc |-> "idle", capacity |-> 0, enrolledCount |-> 0]

\* a registerUser call that has not arrived
NoSignup == [pc |-> "idle", username |-> "", email |-> "", status |-> 0]

\* the number of registerUser calls in flight together
MaxSignups == 2

Signups == 1..MaxSignups

\* nothing is in flight besides the requests of the pipeline
AuxIdle ==
  /\ called = NoCall
  /\ room = NoRoom
  /\ updating = NoUpdate
  /\ signup = [c \in Signups |-> NoSignup]

\* before ManagersLoader.load builds the ApiHandler
InitBuild ==
  /\ httpExposed \in SeqsUpTo(DeclSet, MaxDecls)
  /\ phase = "new"
  /\ methodMatrix = EmptyTables.methodMatrix
  /\ mwsStack = EmptyTables.mwsStack
  /\ startupError = <<>>
  /\ rebuilt = <<>>
  /\ IdleRequests
  /\ EntitiesAtStart
  /\ loaded = LoadedBeforeApi
  /\ AuxIdle

\* this.managers.userApi = new ApiHandler(...)
Construct ==
  /\ phase = "new"
  /\ LET built == ApiHandlerConstructor(httpExposed)
     IN /\ phase' = IF built.threw # <<>> THEN "threw" ELSE "ok"
        /\ methodMatrix' = built.methodMatrix
        /\ mwsStack' = built.mwsStack
        /\ startupError' = built.threw
  /\ UNCHANGED <<httpExposed, rebuilt, reqVars, entVars, auxVars>>

\* a second instance that fills the tables of the first instead of its own
RebuildOnSameTables ==
  /\ phase \in {"ok", "threw"}
  /\ rebuilt = <<>>
  /\ LET again == ForEachManager([ methodMatrix |-> methodMatrix,
                                   mwsStack |-> mwsStack, threw |-> <<>> ],
                                 httpExposed, 1)
     IN /\ rebuilt' = again
        /\ methodMatrix' = again.methodMatrix
        /\ mwsStack' = again.mwsStack
  /\ UNCHANGED <<httpExposed, phase, startupError, reqVars, entVars, auxVars>>

\* new ApiHandler(...) once more, with the same managers and mwsRepo: the
\* constructor fills the tables of the new instance
Rebuild ==
  /\ phase \in {"ok", "threw"}
  /\ rebuilt = <<>>
  /\ rebuilt' = ApiHandlerConstructor(httpExposed)
  /\ UNCHANGED <<httpExposed, phase, methodMatrix, mwsStack, startupError, reqVars, entVars, auxVars>>

NextBuild == Construct \/ Rebuild

SpecBuild == InitBuild /\ [][NextBuild]_vars

(***************************************************************************)
(* Properties of the route table builder (checked under SpecBuild).        *)
(***************************************************************************)
\* the middleware-marked parameters of a handler, in declaration order
MarkedParams(method) == SelectSeq(HandlerParams[method], LAMBDA p : p \in MarkedNames)

Occurrences(q, x) == Cardinality({i \in DOMAIN q : q[i] = x})

\* a declaration names a method that is no function of the module
NamesMissingMethod(decl) == ManagerMethodOf(decl) \notin ThingMethods

\* a declaration's handler asks for a middleware the registry does not hold
NamesMissingMiddleware(decl) ==
  /\ ~NamesMissingMethod(decl)
  /\ \E i \in DOMAIN MarkedParams(ManagerMethodOf(decl)) :
       MarkedParams(ManagerMethodOf(decl))[i] \notin DOMAIN mwsRepo

\* a well-formed handler module: every exposed method exists, every marked
\* parameter is registered, and no (verb, method) pair is declared twice
WellFormed(decls) ==
  /\ \A i \in DOMAIN decls :
       ~NamesMissingMethod(decls[i]) /\ ~NamesMissingMiddleware(decls[i])
  /\ \A i, j \in DOMAIN decls :
       (HttpMethodOf(decls[i]) = HttpMethodOf(decls[j])
          /\ ManagerMethodOf(decls[i]) = ManagerMethodOf(decls[j])) => i = j

\* C7: for a well-formed handler module, after the build every exposed
\* (verb, method) pair is in the route table exactly once and the stack of
\* each route is exactly the marked parameters of the handler, in the order
\* of the handler's parameter list.
C7_RouteTableExact ==
  (phase # "new" /\ WellFormed(httpExposed)) =>
    /\ phase = "ok"
    /\ \A i \in DOMAIN httpExposed :
         LET verb == HttpMethodOf(httpExposed[i])
             method == ManagerMethodOf(httpExposed[i])
         IN /\ "thing" \in DOMAIN methodMatrix
            /\ verb \in DOMAIN methodMatrix["thing"]
            /\ Occurrences(methodMatrix["thing"][verb], method) = 1
            /\ <<"thing", method>> \in DOMAIN mwsStack
            /\ mwsStack[<<"thing", method>>] = MarkedParams(method)

ServedExposed == << <<"createThing">>, <<"get", "tri">>, <<"get", "plain">> >>

\* the state ManagersLoader.load leaves: the tables of the ApiHandler
InitServe ==
  /\ httpExposed = ServedExposed
  /\ phase = "ok"
  /\ methodMatrix = ApiHandlerConstructor(ServedExposed).methodMatrix
  /\ mwsStack = ApiHandlerConstructor(ServedExposed).mwsStack
  /\ startupError = <<>>
  /\ rebuilt = <<>>
  /\ IdleRequests
  /\ EntitiesAtStart
  /\ loaded = LoadedBeforeApi \o <<"userApi", "userServer">>
  /\ AuxIdle

Bearer(tok) == <<"hdr", "Bearer", tok>>

FooBody == Obj([name |-> Str("Foo")])

\* a body whose field carries the name of a middleware
ForgedBody == Obj([name |-> Str("Foo"), __token |-> Str("client-supplied")])

ReqOf(method, moduleName, fnName, authorization, token, qtoken, body) ==
  [ method |-> method, moduleName |-> moduleName, fnName |-> fnName,
    authorization |-> authorization, token |-> token, qtoken |-> qtoken,
    body |-> body ]

\* the requests of the model: req.method.toLowerCase(), req.params,
\* req.headers.authorization, req.headers.token, req.query.token, req.body
Requests ==
  { ReqOf("post", "thing", "createThing", Bearer("tokA"), Undefined, Undefined, FooBody),
    ReqOf("post", "thing", "createThing", Undefined, Undefined, Undefined, FooBody),
    ReqOf("post", "thing", "createThing", Bearer("forged"), Undefined, Undefined, FooBody),
    ReqOf("post", "thing", "createThing", Undefined, Str("expired"), Undefined, FooBody),
    ReqOf("post", "thing", "createThing", Bearer("tokA"), Undefined, Undefined, ForgedBody),
    ReqOf("get", "thing", "tri", Bearer("tokA"), Undefined, Undefined, FooBody),
    ReqOf("get", "thing", "tri", Undefined, Undefined, Undefined, Undefined),
    ReqOf("get", "thing", "plain", Undefined, Undefined, Undefined, Undefined),
    ReqOf("get", "thing", "createThing", Bearer("tokA"), Undefined, Undefined, FooBody),
    ReqOf("put", "thing", "createThing", Bearer("tokA"), Undefined, Undefined, FooBody),
    ReqOf("post", "ghost", "x", Bearer("tokA"), Undefined, Undefined, FooBody),
    ReqOf("post", "constructor", "x", Undefined, Undefined, Undefined, FooBody) }

(***************************************************************************)
(* The middleware pipeline executor (VirtualStack.createBolt, Bolt.run).   *)
(***************************************************************************)
\* new VirtualStack({preStack: ["__device"], ...}): the units run before the
\* stack of every route
preStack == <<"__device">>

\* createBolt({stack, req, res, onDone}) followed by run(): the run starts
\* at the first unit, and is complete at once when there is none
CreateBolt(stack) ==
  LET all == preStack \o stack
  IN [ state |-> IF Len(all) = 0 THEN "Completed" ELSE "Running",
       stack |-> all, index |-> 1, results |-> EmptyObj ]

\* the unit signals "continue with value v": the value is kept under the
\* unit's name and the run advances, to Completed after the last unit
BoltNext(b, v) ==
  [ b EXCEPT !.results = Spread(@, Prop(b.stack[b.index], v)),
             !.index = @ + 1,
             !.state = IF b.index = Len(b.stack) THEN "Completed" ELSE "Running" ]

\* a run that goes on after the unit that answered the request
BoltShortCircuitAdvances(b) ==
  [ b EXCEPT !.index = @ + 1,
             !.state = IF b.index = Len(b.stack) THEN "Completed" ELSE "Running" ]

\* the unit wrote the response and did not continue: the run stops
BoltShortCircuit(b) == [b EXCEPT !.state = "ShortCircuited"]

\* the unit raised: the run stops, onDone is not invoked
BoltFail(b) == [b EXCEPT !.state = "Failed"]

\* the outcomes a unit can have on a request: what the __token and __device
\* units do is their code; every other unit may continue with a value,
\* answer the request itself, or raise
UnitOutcomes(unit, req) ==
  IF unit = "__token" THEN {TokenMw(req)}
  ELSE IF unit = "__device" THEN {DeviceMw(req)}
  ELSE { <<"next", Obj(Prop("from", Str(unit)))>>,
         <<"dispatch", [ok |-> Bool(FALSE), code |-> Num(422), errors |-> Str(unit)]>>,
         <<"raise">> }

\* the exception of the unit at position i travels up the synchronous calls
\* that led to it: the __device unit calls next outside any try, the __token
\* unit calls next inside its catch-all, every other unit has suspended, so
\* its caller's frame is gone
RECURSIVE CaughtByTokenMw(_, _)
CaughtByTokenMw(stack, j) ==
  IF j < 1 THEN FALSE
  ELSE IF stack[j] = "__token" THEN TRUE
  ELSE IF stack[j] = "__device" THEN CaughtByTokenMw(stack, j - 1)
  ELSE FALSE

(***************************************************************************)
(* ApiHandler.mw: the dispatcher.                                          *)
(***************************************************************************)
\* property names every object literal inherits from Object.prototype
ObjectPrototypeKeys == {"constructor", "toString", "hasOwnProperty", "__proto__"}

\* this.methodMatrix[moduleName], methodMatrix being the object literal {}
ModuleMatrixOf(moduleName) ==
  IF moduleName \in DOMAIN methodMatrix THEN Obj(methodMatrix[moduleName])
  ELSE IF moduleName \in ObjectPrototypeKeys THEN <<"inherited", moduleName>>
  ELSE Undefined

\* moduleMatrix[method]
MethodsOf(moduleMatrix, method) ==
  IF moduleMatrix[1] = "obj" /\ method \in DOMAIN moduleMatrix[2]
  THEN Arr(moduleMatrix[2][method])
  ELSE Undefined

\* Array.prototype.includes
Includes(arr, x) == \E i \in DOMAIN arr[2] : arr[2][i] = x

\* the route validation of mw: <<"dispatch", params>> when the route is
\* refused, <<"run", stack>> when the pipeline is started
MwRoute(req) ==
  LET moduleMatrix == ModuleMatrixOf(req.moduleName)
      methods == MethodsOf(moduleMatrix, req.method)
  IN IF ~Truthy(moduleMatrix)
     THEN <<"dispatch", [ ok |-> Bool(FALSE),
            message |-> Tmpl("module ${moduleName} not found", req.moduleName, "") ]>>
     ELSE IF ~Truthy(methods)
     THEN <<"dispatch", [ ok |-> Bool(FALSE),
            message |-> Tmpl("unsupported method ${method} for ${moduleName}",
                             req.method, req.moduleName) ]>>
     ELSE IF ~Includes(methods, req.fnName)
     THEN <<"dispatch", [ ok |-> Bool(FALSE),
            message |-> Tmpl("unable to find function ${fnName} with method ${method}",
                             req.fnName, req.method) ]>>
     ELSE <<"run", mwsStack[<<req.moduleName, req.fnName>>]>>

\* the spread written the other way round, { ...results, ...body, res }
HandlerDataBodyWins(r, req, results) ==
  LET body == OrElse(req.body, Obj(EmptyObj))
  IN Spread(Spread(results, body[2]), Prop("res", <<"res", r>>))

\* the argument built from one results object kept by the executor for all
\* runs (that of the first request)
HandlerDataShared(r, req, results) ==
  LET body == OrElse(req.body, Obj(EmptyObj))
  IN Spread(Spread(body[2], bolt[1].results), Prop("res", <<"res", r>>))

\* the argument of the handler: { ...body, ...results, res }
HandlerData(r, req, results) ==
  LET body == OrElse(req.body, Obj(EmptyObj))
  IN Spread(Spread(body[2], results), Prop("res", <<"res", r>>))

\* the handler called without waiting for the run to complete
OnDoneEager(r, req, b) ==
  /\ calls' = [calls EXCEPT ![r] = Append(@, HandlerData(r, req, b.results))]
  /\ handler' = [handler EXCEPT ![r] = "running"]

\* onDone runs when, and only when, the run has reached Completed: it calls
\* the handler through _exec
OnDone(r, req, b) ==
  IF b.state = "Completed"
  THEN /\ calls' = [calls EXCEPT ![r] = Append(@, HandlerData(r, req, b.results))]
       /\ handler' = [handler EXCEPT ![r] = "running"]
  ELSE UNCHANGED <<calls, handler>>

\* app.all("/api/:moduleName/:fnName", userApi.mw): a request arrives
Mw(r) ==
  /\ alive /\ phase = "ok"
  /\ request[r] = NoRequest
  /\ \A q \in Reqs : q < r => request[q] # NoRequest
  /\ \E req \in Requests :
       LET route == MwRoute(req)
       IN /\ request' = [request EXCEPT ![r] = req]
          /\ IF route[1] = "dispatch"
             THEN /\ sent' = [sent EXCEPT ![r] = Append(@, Dispatch(route[2]))]
                  /\ UNCHANGED <<bolt, calls, handler>>
             ELSE /\ bolt' = [bolt EXCEPT ![r] = CreateBolt(route[2])]
                  /\ OnDone(r, req, bolt'[r])
                  /\ UNCHANGED sent
  /\ UNCHANGED <<buildVars, entVars, auxVars, ran, executing, outcomes, alive>>

\* the units whose source is in mws/: plain functions that settle before
\* they return
SyncUnits == {"__token", "__device"}

\* the unit at the head of the run may act: a unit of mws/ at once, any
\* other unit once it has been started
Ready(r) ==
  /\ alive /\ bolt[r].state = "Running"
  /\ \/ bolt[r].stack[bolt[r].index] \in SyncUnits
     \/ bolt[r].stack[bolt[r].index] \in executing[r]

\* the unit at the head leaves the set of executing units
Resolved(r) ==
  executing' = [executing EXCEPT ![r] = @ \ {bolt[r].stack[bolt[r].index]}]

\* run() invoking, beside the unit at the head, any later unit of the stack
UnitStartsAhead(r) ==
  /\ alive /\ bolt[r].state = "Running"
  /\ \E i \in bolt[r].index..Len(bolt[r].stack) :
       /\ bolt[r].stack[i] \notin SyncUnits
       /\ bolt[r].stack[i] \notin executing[r]
       /\ executing' = [executing EXCEPT ![r] = @ \cup {bolt[r].stack[i]}]
  /\ UNCHANGED <<buildVars, entVars, auxVars, request, bolt, ran, calls, handler, outcomes, sent, alive>>

\* run() invokes the unit at the head of the run, which suspends on its I/O
UnitStarts(r) ==
  /\ alive /\ bolt[r].state = "Running"
  /\ bolt[r].stack[bolt[r].index] \notin SyncUnits
  /\ bolt[r].stack[bolt[r].index] \notin executing[r]
  /\ executing' = [executing EXCEPT ![r] = @ \cup {bolt[r].stack[bolt[r].index]}]
  /\ UNCHANGED <<buildVars, entVars, auxVars, request, bolt, ran, calls, handler, outcomes, sent, alive>>

\* the unit at the head of the run calls next(value)
UnitContinues(r) ==
  /\ Ready(r)
  /\ LET b == bolt[r]
         unit == b.stack[b.index]
     IN \E o \in UnitOutcomes(unit, request[r]) :
          /\ o[1] = "next"
          /\ ran' = [ran EXCEPT ![r] = Append(@, unit)]
          /\ bolt' = [bolt EXCEPT ![r] = BoltNext(b, o[2])]
          /\ OnDone(r, request[r], bolt'[r])
  /\ Resolved(r)
  /\ UNCHANGED <<buildVars, entVars, auxVars, request, outcomes, sent, alive>>

\* the unit at the head of the run writes the response itself and returns
UnitShortCircuits(r) ==
  /\ Ready(r)
  /\ LET b == bolt[r]
         unit == b.stack[b.index]
     IN \E o \in UnitOutcomes(unit, request[r]) :
          /\ o[1] = "dispatch"
          /\ ran' = [ran EXCEPT ![r] = Append(@, unit)]
          /\ bolt' = [bolt EXCEPT ![r] = BoltShortCircuit(b)]
          /\ sent' = [sent EXCEPT ![r] = Append(@, Dispatch(o[2]))]
  /\ Resolved(r)
  /\ UNCHANGED <<buildVars, entVars, auxVars, request, calls, handler, outcomes, alive>>

\* the unit at the head of the run raises, as it is invoked or after it
\* has suspended: when it raises as it is invoked, the catch-all of a
\* __token unit whose call of next is still on the stack answers with its
\* 500; otherwise nothing catches it (mw has no try and never calls
\* next(err); the process's uncaughtException/unhandledRejection handlers
\* exit)
UnitRaises(r) ==
  /\ alive /\ bolt[r].state = "Running"
  /\ LET b == bolt[r]
         unit == b.stack[b.index]
     IN /\ <<"raise">> \in UnitOutcomes(unit, request[r])
        /\ ran' = [ran EXCEPT ![r] = Append(@, unit)]
        /\ bolt' = [bolt EXCEPT ![r] = BoltFail(b)]
        /\ IF unit \notin executing[r] /\ CaughtByTokenMw(b.stack, b.index - 1)
           THEN /\ sent' = [sent EXCEPT ![r] = Append(@, Dispatch(TokenMwCatch))]
                /\ UNCHANGED alive
           ELSE /\ alive' = FALSE
                /\ UNCHANGED sent
  /\ Resolved(r)
  /\ UNCHANGED <<buildVars, entVars, auxVars, request, calls, handler, outcomes>>

(***************************************************************************)
(* The handler call (_exec) and the response normalizer (onDone).          *)
(***************************************************************************)
\* what a handler may return: a plain data object, {errors} without and with
\* a code, an empty error list, {error}, a success that carries its own code
\* (as createStudent's 201), a self-handled response, nothing at all, null
HandlerResults ==
  { Obj([thing |-> Str("Foo")]),
    Obj([errors |-> Arr(<<Str("x")>>)]),
    Obj([ok |-> Bool(FALSE), code |-> Num(409),
         errors |-> Arr(<<Obj([field |-> Str("email"), message |-> Str("taken")])>>)]),
    Obj([errors |-> Arr(<<>>)]),
    Obj([error |-> Str("denied"), code |-> Num(403)]),
    Obj([ok |-> Bool(TRUE), code |-> Num(201), data |-> Obj([id |-> Str("s1")])]),
    Obj([selfHandleResponse |-> Bool(TRUE)]),
    Undefined,
    <<"null">> }

\* what the handler of a route returns: createThing any of the results
\* above, the handlers of the other routes a plain data object or a
\* self-handled response
HandlerResultsOf(fnName) ==
  IF fnName = "createThing" THEN HandlerResults
  ELSE {Obj([thing |-> Str("Foo")]), Obj([selfHandleResponse |-> Bool(TRUE)])}

\* the messages of the exceptions a handler may throw
ErrorMessages == {"db password=hunter2"}

\* _exec: the handler's result, or {error: `${fnName} failed to execute`}
\* when the handler threw
Exec(fnName, outcome) ==
  IF outcome[1] = "throw"
  THEN Obj(Prop("error", Tmpl("${fnName} failed to execute", fnName, "")))
  ELSE outcome

\* a normalizer without the selfHandleResponse test
NormalizeAlways(execResult) ==
  LET result == OrElse(execResult, Obj(EmptyObj))[2]
  IN IF Truthy(Get(result, "errors"))
     THEN <<"dispatch", [ ok |-> Bool(FALSE), code |-> Get(result, "code"),
                          errors |-> Get(result, "errors") ]>>
     ELSE <<"dispatch", [ ok |-> Bool(TRUE), code |-> Get(result, "code"),
                          data |-> Obj(result) ]>>

\* the normalizer of onDone: the parameters handed to dispatch, <<"nothing">>
\* when the handler answered the request itself
Normalize(execResult) ==
  LET result == OrElse(execResult, Obj(EmptyObj))[2]
  IN IF Truthy(Get(result, "selfHandleResponse")) THEN <<"nothing">>
     ELSE IF Truthy(Get(result, "errors"))
     THEN <<"dispatch", [ ok |-> Bool(FALSE), code |-> Get(result, "code"),
                          errors |-> Get(result, "errors") ]>>
     ELSE IF Truthy(Get(result, "error"))
     THEN <<"dispatch", [ ok |-> Bool(FALSE), code |-> Get(result, "code"),
                          message |-> Get(result, "error") ]>>
     ELSE <<"dispatch", [ ok |-> Bool(TRUE), code |-> Get(result, "code"),
                          data |-> Obj(result) ]>>

\* the rest of onDone once the handler has settled with `outcome`
Settle(r, outcome) ==
  LET n == Normalize(Exec(request[r].fnName, outcome))
  IN /\ handler' = [handler EXCEPT ![r] = "returned"]
     /\ outcomes' = [outcomes EXCEPT ![r] = Append(@, outcome)]
     /\ sent' = IF n[1] = "dispatch"
                THEN [sent EXCEPT ![r] = Append(@, Dispatch(n[2]))]
                ELSE sent

\* the handler resolves with a result
HandlerReturns(r) ==
  /\ alive /\ handler[r] = "running"
  /\ \E result \in HandlerResultsOf(request[r].fnName) : Settle(r, result)
  /\ UNCHANGED <<buildVars, entVars, auxVars, request, bolt, ran, executing, calls, alive>>

\* the handler throws, or its promise rejects
HandlerThrows(r) ==
  /\ alive /\ handler[r] = "running"
  /\ \E msg \in ErrorMessages : Settle(r, <<"throw", msg>>)
  /\ UNCHANGED <<buildVars, entVars, auxVars, request, bolt, ran, executing, calls, alive>>

\* what the catch of registerUser returns for the exception it caught
RegisterUserCatch(msg) ==
  Obj([ ok     |-> Bool(FALSE),
        code   |-> Num(500),
        errors |-> Arr(<<Obj([ message |-> Str("An unexpected error occurred during registration. Please try again."),
                               details |-> Str(msg) ])>>) ])

\* an exception is raised inside the handler, whose own catch returns
\* (registerUser's try/catch; the handler of createThing has one)
HandlerCatches(r) ==
  /\ alive /\ handler[r] = "running"
  /\ request[r].fnName = "createThing"
  /\ \E msg \in ErrorMessages : Settle(r, RegisterUserCatch(msg))
  /\ UNCHANGED <<buildVars, entVars, auxVars, request, bolt, ran, executing, calls, alive>>

Next ==
  \E r \in Reqs :
    \/ Mw(r)
    \/ UnitStarts(r)
    \/ UnitContinues(r)
    \/ UnitShortCircuits(r)
    \/ UnitRaises(r)
    \/ HandlerReturns(r)
    \/ HandlerThrows(r)
    \/ HandlerCatches(r)

Spec == InitServe /\ [][Next]_vars

\* the steps of one request once it has arrived
StepOf(r) ==
  \/ UnitStarts(r)
  \/ UnitContinues(r)
  \/ UnitShortCircuits(r)
  \/ UnitRaises(r)
  \/ HandlerReturns(r)
  \/ HandlerThrows(r)
  \/ HandlerCatches(r)

\* the event loop runs every callback that is ready, and every unit and
\* handler that was started settles
SpecFair == InitServe /\ [][Next]_vars /\ \A r \in Reqs : WF_vars(StepOf(r))

(***************************************************************************)
(* The entity managers behind the routes: User, School, Classroom.  Each   *)
(* action below is one request served from arrival to response: the       *)
(* __token unit of the route, then the handler, then the normalizer and    *)
(* dispatch.                                                               *)
(***************************************************************************)
\* the tokens a client can present to an entity route: none, a forged one,
\* the access token of an account that exists
Presentable == {"", "forged"} \cup {AccessToken[u] : u \in DOMAIN users}

\* the req of an entity request as the __token unit sees it
EntityReq(token) ==
  ReqOf("post", "", "", IF token = "" THEN Undefined ELSE Bearer(token),
        Undefined, Undefined, Undefined)

\* the __token argument of the handler: the decoded payload
DecodedToken(token) ==
  LET gate == TokenMw(EntityReq(token))
  IN IF gate[1] = "next" THEN gate[2] ELSE Undefined

\* {ok: false, code, errors: message}
Failure(code, message) ==
  Obj([ok |-> Bool(FALSE), code |-> Num(code), errors |-> Str(message)])

\* the results of the errorHandler helpers and of the handlers that build the
\* same shape inline: {ok: false, code, errors: [{message}]}
FailureList(code, message) ==
  Obj([ ok |-> Bool(FALSE), code |-> Num(code),
        errors |-> Arr(<<Obj([message |-> Str(message)])>>) ])

\* what a handler did: its result, the collections it read or wrote, and the
\* database it leaves
Effect(result, touched) ==
  [ result |-> result, touched |-> touched, users |-> users, schools |-> schools,
    classrooms |-> classrooms, cache |-> cache ]

\* findOne({<field>: value, isDeleted: false}) on a collection: the id of the
\* document, "" when there is none
FindOne(collection, field, value) ==
  LET hits == { id \in DOMAIN collection :
                  /\ collection[id][field] = value
                  /\ collection[id].isDeleted = Bool(FALSE) }
  IN IF hits = {} THEN "" ELSE CHOOSE id \in hits : TRUE

\* the status the client receives for a handler result
StatusOf(result) == Dispatch(Normalize(result)[2]).status

\* the password an account holds when every successful changePassword took
\* effect: the one of the last such change, else the one registered
CurrentPassword(userId) ==
  IF changed[userId] # "" THEN changed[userId] ELSE Registered[userId]

\* the request is answered and its effects are stored; the handler runs only
\* when the __token unit continued
Serve(op, token, target, arg1, arg2, protected, h) ==
  LET gate == TokenMw(EntityReq(token))
      stopped == protected /\ gate[1] = "dispatch"
      status == IF stopped THEN Dispatch(gate[2]).status ELSE StatusOf(h.result)
  IN /\ served < MaxOps
     /\ served' = served + 1
     /\ lastOp' = [ op |-> op, token |-> token, target |-> target, arg1 |-> arg1,
                    arg2 |-> arg2, protected |-> protected, status |-> status,
                    invoked |-> ~stopped,
                    touched |-> IF stopped THEN {} ELSE h.touched,
                    afterLogout |-> token \in loggedOut,
                    holds |-> IF target \in DOMAIN changed
                              THEN CurrentPassword(target) ELSE "" ]
     /\ users' = IF stopped THEN users ELSE h.users
     /\ schools' = IF stopped THEN schools ELSE h.schools
     /\ classrooms' = IF stopped THEN classrooms ELSE h.classrooms
     /\ cache' = IF stopped THEN cache ELSE h.cache
     /\ loggedOut' = IF op = "logoutUser" /\ status = Num(200)
                     THEN loggedOut \cup {token} ELSE loggedOut
     /\ changed' = IF op = "changePassword" /\ status = Num(200)
                   THEN [changed EXCEPT ![target] = arg2] ELSE changed
     /\ UNCHANGED <<buildVars, reqVars, auxVars>>

\* bcrypt.compare(data, hash): <<"throw">> when an argument is missing
BcryptCompare(data, hash) ==
  IF data = "" \/ hash \in {Undefined, <<"null">>}
  THEN <<"throw", "data and hash arguments required">>
  ELSE <<"ok", hash = Hash(data)>>

Usernames == {"root", "adm", "nobody"}

\* the paths of userSchema
UserSchemaPaths ==
  { "id", "username", "email", "password", "role", "status", "schoolId", "lastLogin",
    "updatedAt", "isDeleted" }

\* User._updateUser(id, updateData): findOneAndUpdate, which sets the paths
\* of the schema and drops every other key (strict mode)
UpdateUser(id, updateData) ==
  LET update == Spread(updateData, Prop("updatedAt", Timestamp))
      kept == [k \in DOMAIN update \cap UserSchemaPaths |-> update[k]]
  IN [users EXCEPT ![id] = Spread(@, kept)]

Passwords == {"pw-first", "pw-second"}

\* the cache key `user:${userId}:token`
TokenKey(userId) == <<"user", userId, "token">>

\* User.loginUser({username, password})
loginUser(username, password) ==
  LET id == FindOne(users, "username", Str(username))
      user == users[id]
      passwordMatch == BcryptCompare(password, Get(user, "password"))
  IN IF username = "" \/ password = ""
     THEN Effect(FailureList(400, "is required"), {})
     ELSE IF id = ""
     THEN Effect(FailureList(401, "Invalid username or password"), {"user"})
     ELSE IF passwordMatch[1] = "throw"
     THEN Effect(FailureList(500, "An error occurred during login. Please try again."),
                 {"user"})
     ELSE IF ~passwordMatch[2]
     THEN Effect(FailureList(401, "Invalid username or password"), {"user"})
     ELSE IF user.status # Str("active")
     THEN Effect(FailureList(403, "Your account is currently not active"), {"user"})
     ELSE [ Effect(Obj([ user |-> Obj([id |-> user.id, role |-> user.role]),
                         accessToken |-> Str(AccessToken[id]) ]), {"user"})
            EXCEPT !.users = UpdateUser(id, Prop("lastLogin", Timestamp)),
                   !.cache = cache \cup {TokenKey(id)} ]

LoginUser ==
  \E username \in Usernames, password \in Passwords :
    Serve("loginUser", "", username, password, "", FALSE, loginUser(username, password))

\* User.logoutUser({__token})
logoutUser(token) ==
  IF ~Truthy(token)
  THEN Effect(FailureList(401, "Please login before logout"), {})
  ELSE [ Effect(Obj([message |-> Str("You have been logged out successfully")]), {})
         EXCEPT !.cache = cache \ {TokenKey(token[2].userId[2])} ]

LogoutUser ==
  \E token \in Presentable :
    Serve("logoutUser", token, "", "", "", TRUE, logoutUser(DecodedToken(token)))

UserIds == {"sa", "adm"}

NewPasswords == {"pw-second", "short"}

\* the "password" model of the validators: at least 8 characters
ValidPassword(password) == password # "short"

\* User.changePassword({id, currentPassword, newPassword, __token})
changePassword(id, currentPassword, newPassword, token) ==
  LET found == FindOne(users, "id", Str(id))
      user == users[found]
      passwordMatch == BcryptCompare(currentPassword, Get(user, "passwordHash"))
  IN IF id = "" \/ currentPassword = "" \/ newPassword = ""
     THEN Effect(FailureList(400, "is required"), {})
     ELSE IF ~Truthy(token)
     THEN Effect(FailureList(401, "Authentication required to change password"), {})
     ELSE IF Get(token[2], "userId") # Str(id)
     THEN Effect(FailureList(403, "You can only change your own password"), {})
     ELSE IF found = ""
     THEN Effect(FailureList(404, "User not found"), {"user"})
     ELSE IF passwordMatch[1] = "throw"
     THEN Effect(FailureList(500, "Failed to change password"), {"user"})
     ELSE IF ~passwordMatch[2]
     THEN Effect(FailureList(400, "Current password is incorrect"), {"user"})
     ELSE IF ~ValidPassword(newPassword)
     THEN Effect(FailureList(400, "validation"), {"user"})
     ELSE [ Effect(Obj([message |-> Str("Password changed successfully")]), {"user"})
            EXCEPT !.users = UpdateUser(id, Prop("passwordHash", Hash(newPassword))) ]

ChangePassword ==
  \E token \in Presentable, id \in UserIds,
     currentPassword \in Passwords, newPassword \in NewPasswords :
    Serve("changePassword", token, id, currentPassword, newPassword, TRUE,
          changePassword(id, currentPassword, newPassword, DecodedToken(token)))

(***************************************************************************)
(* The School manager.                                                     *)
(***************************************************************************)
\* __token.role !== "superadmin"
NotSuperadmin(token) == Get(token[2], "role") # Str("superadmin")

\* the ids uuidv4 gives to the documents created, in order
NewIds == <<"n1", "n2", "n3", "n4", "n5", "n6">>

\* the id of the next document of a collection that started with two
FreshId(collection) == NewIds[Cardinality(DOMAIN collection) - 1]

SchoolTargets == {"s1", "nope"}

SchoolCodes == {"AAA", "CCC"}

\* School.createSchool({schoolName, ..., schoolCode, __token})
createSchool(schoolCode, token) ==
  IF ~Truthy(token) THEN Effect(Failure(401, "Authentication required"), {})
  ELSE IF NotSuperadmin(token)
  THEN Effect(Failure(403, "Only superadmin can create schools"), {})
  ELSE IF FindOne(schools, "shortCode", Str(schoolCode)) # ""
  THEN Effect(Failure(409, "School code already exists. Please use a different code."),
              {"school"})
  ELSE LET id == FreshId(schools)
       IN [ Effect(Obj([school |-> Obj([id |-> Str(id), shortCode |-> Str(schoolCode)])]),
                   {"school"})
            EXCEPT !.schools = (id :> SchoolDoc(id, schoolCode)) @@ schools ]

CreateSchool ==
  \E token \in Presentable, schoolCode \in SchoolCodes :
    Serve("createSchool", token, "", schoolCode, "", TRUE,
          createSchool(schoolCode, DecodedToken(token)))

\* School.updateSchool({id, schoolName, ..., __token})
updateSchool(id, schoolName, token) ==
  IF ~Truthy(token) THEN Effect(Failure(401, "Authentication required"), {})
  ELSE IF NotSuperadmin(token)
  THEN Effect(Failure(403, "Only superadmin can update schools"), {})
  ELSE IF FindOne(schools, "id", Str(id)) = ""
  THEN Effect(Failure(404, "School not found"), {"school"})
  ELSE [ Effect(Obj([school |-> Obj([id |-> Str(id), name |-> Str(schoolName)])]),
                {"school"})
         EXCEPT !.schools = [schools EXCEPT ![id].name = Str(schoolName)] ]

UpdateSchool ==
  \E token \in Presentable, id \in SchoolTargets :
    Serve("updateSchool", token, id, "Renamed", "", TRUE,
          updateSchool(id, "Renamed", DecodedToken(token)))

\* School.getSchoolById({id, __token})
getSchoolById(id, token) ==
  IF ~Truthy(token) THEN Effect(Failure(401, "Authentication required"), {})
  ELSE IF FindOne(schools, "id", Str(id)) = ""
  THEN Effect(Failure(404, "School not found"), {"school"})
  ELSE Effect(Obj([school |-> Obj(schools[id])]), {"school"})

GetSchoolById ==
  \E token \in Presentable, id \in SchoolTargets :
    Serve("getSchoolById", token, id, "", "", TRUE,
          getSchoolById(id, DecodedToken(token)))

\* School.listSchools({page, limit, searchTerm, status, __token})
listSchools(token) ==
  IF ~Truthy(token) THEN Effect(Failure(401, "Authentication required"), {})
  ELSE IF NotSuperadmin(token)
  THEN Effect(Failure(403, "Only superadmin can list schools"), {})
  ELSE Effect(Obj([ schools |-> Str("the schools not deleted"),
                    pagination |-> Str("page") ]), {"school"})

ListSchools ==
  \E token \in Presentable :
    Serve("listSchools", token, "", "", "", TRUE, listSchools(DecodedToken(token)))

\* School.deleteSchool({id, __token})
deleteSchool(id, token) ==
  IF ~Truthy(token) THEN Effect(Failure(401, "Authentication required"), {})
  ELSE IF NotSuperadmin(token)
  THEN Effect(Failure(403, "Only superadmin can delete schools"), {})
  ELSE IF FindOne(schools, "id", Str(id)) = ""
  THEN Effect(Failure(404, "School not found"), {"school"})
  ELSE [ Effect(Obj([message |-> Str("School deactivated successfully")]), {"school"})
         EXCEPT !.schools = [schools EXCEPT ![id].isDeleted = Bool(TRUE)] ]

DeleteSchool ==
  \E token \in Presentable, id \in SchoolTargets :
    Serve("deleteSchool", token, id, "", "", TRUE,
          deleteSchool(id, DecodedToken(token)))

\* School.getSchoolStats({id, __token})
getSchoolStats(id, token) ==
  IF ~Truthy(token) THEN Effect(Failure(401, "Authentication required"), {})
  ELSE IF FindOne(schools, "id", Str(id)) = ""
  THEN Effect(Failure(404, "School not found"), {"school"})
  ELSE Effect(Obj([statistics |-> Obj([schoolId |-> Str(id), schoolName |-> schools[id].name])]),
              {"school", "classroom", "student", "user"})

GetSchoolStats ==
  \E token \in Presentable, id \in SchoolTargets :
    Serve("getSchoolStats", token, id, "", "", TRUE,
          getSchoolStats(id, DecodedToken(token)))

(***************************************************************************)
(* The Classroom manager.                                                  *)
(***************************************************************************)
\* __token.role === "school_admin" && __token.schoolId !== schoolId
OtherSchool(token, schoolId) ==
  /\ Get(token[2], "role") = Str("school_admin")
  /\ Get(token[2], "schoolId") # schoolId

\* !["superadmin", "school_admin"].includes(__token.role)
NotAdmin(token) == Get(token[2], "role") \notin {Str("superadmin"), Str("school_admin")}

ClassroomTargets == {"c1", "c2"}

SchoolIds == {"s1", "s2"}

Sections == {"A", "B"}

\* Classroom.createClassroom({schoolId, classroomName, gradeLevel, section,
\* capacity, roomNumber, __token})
createClassroom(schoolId, section, token) ==
  LET existing == { id \in DOMAIN classrooms :
                      /\ classrooms[id].schoolId = Str(schoolId)
                      /\ classrooms[id].section = Str(section)
                      /\ classrooms[id].isDeleted = Bool(FALSE) }
  IN IF ~Truthy(token) THEN Effect(Failure(401, "Authentication required"), {})
     ELSE IF OtherSchool(token, Str(schoolId))
     THEN Effect(Failure(403, "Cannot create classrooms in other schools"), {})
     ELSE IF NotAdmin(token)
     THEN Effect(Failure(403, "Only school admin can create classrooms"), {})
     ELSE IF existing # {}
     THEN Effect(Failure(409, "Classroom already exists in this school"), {"classroom"})
     ELSE LET id == FreshId(classrooms)
          IN [ Effect(Obj([classroom |-> Obj([id |-> Str(id), section |-> Str(section)])]),
                      {"classroom"})
               EXCEPT !.classrooms = (id :> ClassroomDoc(id, schoolId, section)) @@ classrooms ]

CreateClassroom ==
  \E token \in Presentable, schoolId \in SchoolIds, section \in Sections :
    Serve("createClassroom", token, "", schoolId, section, TRUE,
          createClassroom(schoolId, section, DecodedToken(token)))

\* Classroom.updateClassroom({id, classroomName, capacity, roomNumber, __token})
updateClassroom(id, classroomName, token) ==
  IF ~Truthy(token) THEN Effect(Failure(401, "Authentication required"), {})
  ELSE IF FindOne(classrooms, "id", Str(id)) = ""
  THEN Effect(Failure(404, "Classroom not found"), {"classroom"})
  ELSE IF OtherSchool(token, classrooms[id].schoolId)
  THEN Effect(Failure(403, "Cannot update classrooms in other schools"), {"classroom"})
  ELSE IF NotAdmin(token)
  THEN Effect(Failure(403, "Only school admin can update classrooms"), {"classroom"})
  ELSE [ Effect(Obj([classroom |-> Obj([id |-> Str(id), name |-> Str(classroomName)])]),
                {"classroom"})
         EXCEPT !.classrooms = [classrooms EXCEPT ![id].name = Str(classroomName)] ]

UpdateClassroom ==
  \E token \in Presentable, id \in ClassroomTargets :
    Serve("updateClassroom", token, id, "Renamed", "", TRUE,
          updateClassroom(id, "Renamed", DecodedToken(token)))

\* Classroom.getClassroomById({id, __token})
getClassroomById(id, token) ==
  IF ~Truthy(token) THEN Effect(Failure(401, "Authentication required"), {})
  ELSE IF FindOne(classrooms, "id", Str(id)) = ""
  THEN Effect(Failure(404, "Classroom not found"), {"classroom"})
  ELSE Effect(Obj([classroom |-> Obj(classrooms[id])]), {"classroom"})

GetClassroomById ==
  \E token \in Presentable, id \in ClassroomTargets :
    Serve("getClassroomById", token, id, "", "", TRUE,
          getClassroomById(id, DecodedToken(token)))

\* Classroom.listClassrooms({schoolId, page, limit, gradeLevel, __token})
listClassrooms(schoolId, token) ==
  IF ~Truthy(token) THEN Effect(Failure(401, "Authentication required"), {})
  ELSE IF OtherSchool(token, Str(schoolId))
  THEN Effect(Failure(403, "Cannot list classrooms in other schools"), {})
  ELSE Effect(Obj([ classrooms |-> Str("the classrooms of the school"),
                    pagination |-> Str("page") ]), {"classroom"})

ListClassrooms ==
  \E token \in Presentable, schoolId \in SchoolIds :
    Serve("listClassrooms", token, "", schoolId, "", TRUE,
          listClassrooms(schoolId, DecodedToken(token)))

\* Classroom.deleteClassroom({id, __token})
deleteClassroom(id, token) ==
  IF ~Truthy(token) THEN Effect(Failure(401, "Authentication required"), {})
  ELSE IF FindOne(classrooms, "id", Str(id)) = ""
  THEN Effect(Failure(404, "Classroom not found"), {"classroom"})
  ELSE IF OtherSchool(token, classrooms[id].schoolId)
  THEN Effect(Failure(403, "Cannot delete classrooms in other schools"), {"classroom"})
  ELSE IF classrooms[id].enrolledCount[2] > 0
  THEN Effect(Failure(400, "Cannot delete classroom with enrolled students"),
              {"classroom"})
  ELSE [ Effect(Obj([message |-> Str("Classroom deleted successfully")]), {"classroom"})
         EXCEPT !.classrooms = [classrooms EXCEPT ![id].isDeleted = Bool(TRUE)] ]

DeleteClassroom ==
  \E token \in Presentable, id \in ClassroomTargets :
    Serve("deleteClassroom", token, id, "", "", TRUE,
          deleteClassroom(id, DecodedToken(token)))

\* Classroom.getClassroomEnrollment({id, page, limit, __token})
getClassroomEnrollment(id, token) ==
  IF ~Truthy(token) THEN Effect(Failure(401, "Authentication required"), {})
  ELSE IF FindOne(classrooms, "id", Str(id)) = ""
  THEN Effect(Failure(404, "Classroom not found"), {"classroom"})
  ELSE Effect(Obj([ ok |-> Bool(TRUE), code |-> Num(200),
                    data |-> Obj([classroomId |-> Str(id)]) ]), {"classroom"})

GetClassroomEnrollment ==
  \E token \in Presentable, id \in ClassroomTargets :
    Serve("getClassroomEnrollment", token, id, "", "", TRUE,
          getClassroomEnrollment(id, DecodedToken(token)))

\* Classroom.checkClassroomAvailability({id, __token})
checkClassroomAvailability(id, token) ==
  IF ~Truthy(token) THEN Effect(Failure(401, "Authentication required"), {})
  ELSE IF FindOne(classrooms, "id", Str(id)) = ""
  THEN Effect(Failure(404, "Classroom not found"), {"classroom"})
  ELSE Effect(Obj([ classroomId |-> Str(id),
                    enrolledCount |-> classrooms[id].enrolledCount ]), {"classroom"})

CheckClassroomAvailability ==
  \E token \in Presentable, id \in ClassroomTargets :
    Serve("checkClassroomAvailability", token, id, "", "", TRUE,
          checkClassroomAvailability(id, DecodedToken(token)))

\* the entity requests, served one after another on the database the
\* server started with
NextEntities ==
  \/ LoginUser
  \/ LogoutUser
  \/ ChangePassword
  \/ CreateSchool
  \/ UpdateSchool
  \/ GetSchoolById
  \/ ListSchools
  \/ DeleteSchool
  \/ GetSchoolStats
  \/ CreateClassroom
  \/ UpdateClassroom
  \/ GetClassroomById
  \/ ListClassrooms
  \/ DeleteClassroom
  \/ GetClassroomEnrollment
  \/ CheckClassroomAvailability

SpecEntities == InitServe /\ [][NextEntities]_vars

(***************************************************************************)
(* dispatch called on its own: the parameters are drawn from the shapes a  *)
(* caller can pass.                                                        *)
(***************************************************************************)
\* the values a caller passes as errors
ErrorInputs ==
  { Undefined, <<"null">>, Str(""), Str("bad input"), Num(5),
    Arr(<<>>),
    Arr(<<Str("a")>>),
    Arr(<<Str("a"), Obj([field |-> Str("email"), message |-> Str("taken")]), Str("")>>),
    Arr(<<Obj([message |-> Str("m")]), Num(7)>>),
    Obj([field |-> Str("email"), message |-> Str("taken")]) }

\* the parameters of dispatch
DispatchParams ==
  { [ok |-> ok, code |-> code, errors |-> errors, message |-> message] :
      ok \in {Undefined, Bool(TRUE), Bool(FALSE)}, code \in {Undefined, Num(404)},
      errors \in ErrorInputs, message \in {Undefined, Str("hi")} }

\* responseDispatcher.dispatch(res, params)
DispatchCall ==
  /\ \E params \in DispatchParams :
       called' = [fn |-> "dispatch", args |-> params, result |-> Dispatch(params)]
  /\ UNCHANGED <<buildVars, reqVars, entVars, loaded, room, updating, signup>>

NextDispatch == DispatchCall

SpecDispatch == InitServe /\ [][NextDispatch]_vars

(***************************************************************************)
(* The __token unit called on its own, on requests that carry a credential *)
(* in any combination of the three places it looks at.                     *)
(***************************************************************************)
\* the Authorization headers of a request: none, a Bearer header (also one
\* with nothing after the prefix) and a header of another scheme
AuthorizationHeaders ==
  {Undefined, <<"hdr", "Bearer", "">>}
    \cup {<<"hdr", scheme, t>> : scheme \in {"Bearer", "Basic"}, t \in Tokens}

\* the values of the token header and of the token query parameter
TokenFields == {Undefined, Str("")} \cup {Str(t) : t \in Tokens}

\* the requests the unit is called on
TokenRequests ==
  { [authorization |-> a, token |-> h, qtoken |-> q] :
      a \in AuthorizationHeaders, h \in TokenFields, q \in TokenFields }

\* the middleware function of __token.mw.js applied to {req, res, next}
TokenCall ==
  /\ \E req \in TokenRequests :
       called' = [ fn |-> "__token", args |-> req,
                   result |-> [token |-> ExtractToken(req), outcome |-> TokenMw(req)] ]
  /\ UNCHANGED <<buildVars, reqVars, entVars, loaded, room, updating, signup>>

NextToken == TokenCall

SpecToken == InitServe /\ [][NextToken]_vars

(***************************************************************************)
(* ManagersLoader.load(): the managers are put on the shared managers      *)
(* object one statement at a time; the entity managers in the order the    *)
(* file loader lists them, which is any order here.                        *)
(***************************************************************************)
\* the statements of load() before and after the entity managers; "mwsRepo"
\* stands for new MiddlewaresLoader(injectable).load()
SystemManagers == << "responseDispatcher", "liveDb", "mwsRepo", "token" >>

CustomManagers == << "shark", "timeMachine", "mwsExec" >>

\* the names load() has got to so far
Loaded == {loaded[i] : i \in DOMAIN loaded}

\* the state when load() is entered
InitLoad ==
  /\ httpExposed = ServedExposed
  /\ phase = "new"
  /\ methodMatrix = EmptyTables.methodMatrix
  /\ mwsStack = EmptyTables.mwsStack
  /\ startupError = <<>>
  /\ rebuilt = <<>>
  /\ IdleRequests
  /\ EntitiesAtStart
  /\ loaded = <<>>
  /\ AuxIdle

\* steps 1 and 2: responseDispatcher, liveDb, the middlewares, the token manager
LoadSystemManager ==
  /\ Len(loaded) < Len(SystemManagers)
  /\ loaded' = Append(loaded, SystemManagers[Len(loaded) + 1])
  /\ UNCHANGED <<buildVars, reqVars, entVars, called, room, updating, signup>>

\* step 3: one turn of Object.keys(entityManagers).forEach
LoadEntityManager ==
  /\ Len(loaded) >= Len(SystemManagers)
  /\ \E key \in EntityManagers \ Loaded : loaded' = Append(loaded, key)
  /\ UNCHANGED <<buildVars, reqVars, entVars, called, room, updating, signup>>

\* shark, timeMachine and mwsExec
LoadCustomManager ==
  /\ EntityManagers \subseteq Loaded
  /\ \E i \in DOMAIN CustomManagers :
       /\ Len(loaded) = Len(SystemManagers) + Cardinality(EntityManagers) + i - 1
       /\ loaded' = Append(loaded, CustomManagers[i])
  /\ UNCHANGED <<buildVars, reqVars, entVars, called, room, updating, signup>>

\* this.managers.userApi = new ApiHandler(...)
LoadApiHandler ==
  /\ "mwsExec" \in Loaded
  /\ "userApi" \notin Loaded
  /\ phase = "new"
  /\ LET built == ApiHandlerConstructor(httpExposed)
     IN /\ phase' = IF built.threw # <<>> THEN "threw" ELSE "ok"
        /\ methodMatrix' = built.methodMatrix
        /\ mwsStack' = built.mwsStack
        /\ startupError' = built.threw
  /\ loaded' = Append(loaded, "userApi")
  /\ UNCHANGED <<httpExposed, rebuilt, reqVars, entVars, called, room, updating, signup>>

\* this.managers.userServer = new UserServer(...)
LoadUserServer ==
  /\ "userApi" \in Loaded
  /\ "userServer" \notin Loaded
  /\ loaded' = Append(loaded, "userServer")
  /\ UNCHANGED <<buildVars, reqVars, entVars, called, room, updating, signup>>

\* the requests sent to the started server
StartupRequests ==
  { [authorization |-> a, token |-> Undefined, qtoken |-> Undefined] :
      a \in {Undefined, <<"hdr", "Bearer", "tokA">>, <<"hdr", "Bearer", "forged">>} }

\* a request reaches the __token unit once the server exists; the unit reads
\* managers.token and managers.responseDispatcher off the shared object now
HandleRequest ==
  /\ "userServer" \in Loaded
  /\ \E req \in StartupRequests :
       called' = [ fn |-> "request", args |-> req,
                   result |-> [defined |-> Loaded, outcome |-> TokenMw(req)] ]
  /\ UNCHANGED <<buildVars, reqVars, entVars, loaded, room, updating, signup>>

NextLoad ==
  \/ LoadSystemManager
  \/ LoadEntityManager
  \/ LoadCustomManager
  \/ LoadApiHandler
  \/ LoadUserServer
  \/ HandleRequest

SpecLoad == InitLoad /\ [][NextLoad]_vars

(***************************************************************************)
(* One classroom document: its capacity and its enrollment, the instance   *)
(* methods of the classroom schema, and updateClassroom.                   *)
(***************************************************************************)
\* the largest capacity a classroom is created or updated with
MaxCapacity == 3

Capacities == 1..MaxCapacity

\* the student ids passed to enrollStudent and unenrollStudent
StudentIds == {"st1", "st2", "st3"}

\* a new classroom document: enrolledCount 0 and enrolledStudents [] by default
NewRoom(capacity) ==
  [capacity |-> capacity, enrolledCount |-> 0, enrolledStudents |-> <<>>]

\* this.enrolledStudents.includes(studentId)
IsEnrolled(list, x) == \E i \in DOMAIN list : list[i] = x

\* this.enrolledStudents.indexOf(studentId), 1-based; 0 stands for -1
IndexOf(list, x) ==
  IF IsEnrolled(list, x) THEN CHOOSE i \in DOMAIN list :
                               /\ list[i] = x
                               /\ \A j \in DOMAIN list : list[j] = x => i <= j
  ELSE 0

\* this.enrolledStudents.splice(index, 1)
Splice(list, index) ==
  [i \in 1..(Len(list) - 1) |-> IF i < index THEN list[i] ELSE list[i + 1]]

\* a check for a free place that always finds one
hasAvailableSpotAlways(doc) == TRUE

\* classroomSchema.methods.hasAvailableSpot
hasAvailableSpot(doc) == doc.enrolledCount < doc.capacity

\* classroomSchema.methods.enrollStudent: the document afterwards and the
\* value returned
enrollStudent(doc, studentId) ==
  IF IsEnrolled(doc.enrolledStudents, studentId) THEN [doc |-> doc, ret |-> FALSE]
  ELSE IF ~hasAvailableSpot(doc) THEN [doc |-> doc, ret |-> FALSE]
  ELSE [ doc |-> [doc EXCEPT !.enrolledStudents = Append(@, studentId),
                             !.enrolledCount = @ + 1],
         ret |-> TRUE ]

\* classroomSchema.methods.unenrollStudent
unenrollStudent(doc, studentId) ==
  LET index == IndexOf(doc.enrolledStudents, studentId)
  IN IF index = 0 THEN [doc |-> doc, ret |-> FALSE]
     ELSE [ doc |-> [doc EXCEPT !.enrolledStudents = Splice(@, index),
                                !.enrolledCount = @ - 1],
            ret |-> TRUE ]

\* createClassroom saves a new classroom document
SaveClassroom ==
  /\ room = NoRoom
  /\ \E capacity \in Capacities :
       /\ room' = NewRoom(capacity)
       /\ called' = [fn |-> "createClassroom", args |-> <<capacity>>, result |-> Bool(TRUE)]
  /\ UNCHANGED <<buildVars, reqVars, entVars, loaded, updating, signup>>

\* classroom.enrollStudent(studentId) on the stored document
EnrollStudent ==
  /\ room # NoRoom
  /\ \E studentId \in StudentIds :
       LET done == enrollStudent(room, studentId)
       IN /\ room' = done.doc
          /\ called' = [fn |-> "enrollStudent", args |-> <<studentId>>,
                        result |-> Bool(done.ret)]
  /\ UNCHANGED <<buildVars, reqVars, entVars, loaded, updating, signup>>

\* classroom.unenrollStudent(studentId) on the stored document
UnenrollStudent ==
  /\ room # NoRoom
  /\ \E studentId \in StudentIds :
       LET done == unenrollStudent(room, studentId)
       IN /\ room' = done.doc
          /\ called' = [fn |-> "unenrollStudent", args |-> <<studentId>>,
                        result |-> Bool(done.ret)]
  /\ UNCHANGED <<buildVars, reqVars, entVars, loaded, updating, signup>>

NextEnrollment == SaveClassroom \/ EnrollStudent \/ UnenrollStudent

SpecEnrollment == InitServe /\ [][NextEnrollment]_vars

\* the capacities updateClassroom is called with; 0 stands for a call that
\* gives none
UpdateCapacities == 0..MaxCapacity

\* updateClassroom up to `await this._findClassroomById(id)`: the call holds
\* the document as it was read
UpdateFinds ==
  /\ room # NoRoom
  /\ updating.pc = "idle"
  /\ \E capacity \in UpdateCapacities :
       /\ updating' = [pc |-> "found", capacity |-> capacity,
                       enrolledCount |-> room.enrolledCount]
       /\ called' = [fn |-> "updateClassroom", args |-> <<capacity>>, result |-> Undefined]
  /\ UNCHANGED <<buildVars, reqVars, entVars, loaded, room, signup>>

\* the rest of updateClassroom: the capacity test on the document that was
\* read, then findOneAndUpdate({id, isDeleted: false}, updateData)
UpdateWrites ==
  /\ updating.pc = "found"
  /\ IF updating.capacity # 0 /\ updating.capacity < updating.enrolledCount
     THEN /\ room' = room
          /\ called' = [ called EXCEPT !.result =
                           Failure(400, "Cannot reduce capacity below current enrollment") ]
     ELSE /\ room' = IF updating.capacity # 0
                     THEN [room EXCEPT !.capacity = updating.capacity] ELSE room
          /\ called' = [ called EXCEPT !.result =
                           Obj([classroom |-> Obj([ capacity |-> Num(room'.capacity),
                                                    enrolledCount |-> Num(room.enrolledCount) ])]) ]
  /\ updating' = NoUpdate
  /\ UNCHANGED <<buildVars, reqVars, entVars, loaded, signup>>

NextCapacity ==
  \/ SaveClassroom
  \/ EnrollStudent
  \/ UnenrollStudent
  \/ UpdateFinds
  \/ UpdateWrites

SpecCapacity == InitServe /\ [][NextCapacity]_vars

(***************************************************************************)
(* registerUser, called by several clients at once: each call looks the    *)
(* email up, then the username, then creates the document; the calls       *)
(* interleave at every await.                                              *)
(***************************************************************************)
\* the usernames and emails the calls register: the superadmin's and new ones
SignupUsernames == {"root", "neo"}

SignupEmails == {"root@x.io", "neo@x.io"}

\* the unique indexes of userSchema (id, username, email): a document with
\* one of these values is in the collection, deleted or not
IndexHolds(username, email) ==
  \E id \in DOMAIN users :
    users[id].username = Str(username) \/ users[id].email = Str(email)

\* a client calls registerUser({username, email, password, firstName, lastName})
SignupStarts(c) ==
  /\ signup[c].pc = "idle"
  /\ \E username \in SignupUsernames, email \in SignupEmails :
       signup' = [signup EXCEPT ![c] = [ pc |-> "email", username |-> username,
                                         email |-> email, status |-> 0 ]]
  /\ UNCHANGED <<buildVars, reqVars, entVars, loaded, called, room, updating>>

\* step 2, first half: await this._findUserByEmail(email), 409 when found
SignupChecksEmail(c) ==
  /\ signup[c].pc = "email"
  /\ signup' = [signup EXCEPT ![c] =
                  IF FindOne(users, "email", Str(signup[c].email)) # ""
                  THEN [@ EXCEPT !.pc = "done", !.status = 409]
                  ELSE [@ EXCEPT !.pc = "username"]]
  /\ UNCHANGED <<buildVars, reqVars, entVars, loaded, called, room, updating>>

\* step 2, second half: await this._findUserByUsername(username), 409 when found
SignupChecksUsername(c) ==
  /\ signup[c].pc = "username"
  /\ signup' = [signup EXCEPT ![c] =
                  IF FindOne(users, "username", Str(signup[c].username)) # ""
                  THEN [@ EXCEPT !.pc = "done", !.status = 409]
                  ELSE [@ EXCEPT !.pc = "create"]]
  /\ UNCHANGED <<buildVars, reqVars, entVars, loaded, called, room, updating>>

\* steps 3 to 8: await this.mongomodels.user.create(newUser); a duplicate key
\* makes create throw, and the catch of registerUser answers 500
SignupCreates(c) ==
  /\ signup[c].pc = "create"
  /\ IF IndexHolds(signup[c].username, signup[c].email)
     THEN /\ signup' = [signup EXCEPT ![c] = [@ EXCEPT !.pc = "done", !.status = 500]]
          /\ users' = users
     ELSE LET id == FreshId(users)
          IN /\ users' = [k \in DOMAIN users \cup {id} |->
                            IF k = id
                            THEN UserDoc(id, signup[c].username, signup[c].email,
                                         "pw-first", "student", Undefined)
                            ELSE users[k]]
             /\ signup' = [signup EXCEPT ![c] = [@ EXCEPT !.pc = "done", !.status = 200]]
  /\ UNCHANGED <<buildVars, reqVars, schools, classrooms, cache, loggedOut, changed,
                 lastOp, served, loaded, called, room, updating>>

NextSignup ==
  \E c \in Signups :
    \/ SignupStarts(c)
    \/ SignupChecksEmail(c)
    \/ SignupChecksUsername(c)
    \/ SignupCreates(c)

SpecSignup == InitServe /\ [][NextSignup]_vars

(***************************************************************************)
(* The pagination of listSchools and listClassrooms, over a collection of  *)
(* `total` matching documents numbered 1..total in the order find returns  *)
(* them.                                                                   *)
(***************************************************************************)
\* const maxLimit = 100
maxLimit == 100

\* the largest page number requested
MaxPage == 4

PageNumbers == 1..MaxPage

\* the limits requested: small ones, the default, the cap and beyond it
PageLimits == {5, 20, 100, 101, 150}

\* the numbers of matching documents
Totals == {0, 5, 120, 210}

\* Math.min(a, b)
MathMin(a, b) == IF a < b THEN a ELSE b

\* Math.ceil(a / b) for a >= 0 and b > 0
MathCeil(a, b) == (a + b - 1) \div b

\* a skip computed from the page size that is used
SkipOfActualLimit(page, limit) == (page - 1) * MathMin(limit, maxLimit)

\* const skip = (parseInt(page) - 1) * parseInt(limit)
Skip(page, limit) == (page - 1) * limit

\* find(filter).skip(skip).limit(actualLimit) and the pagination object
Paginate(total, page, limit) ==
  LET skip == Skip(page, limit)
      actualLimit == MathMin(limit, maxLimit)
  IN [ items |-> {i \in 1..total : skip < i /\ i <= skip + actualLimit},
       skip |-> skip,
       pagination |-> [ page |-> page, limit |-> actualLimit, total |-> total,
                        pages |-> MathCeil(total, actualLimit) ] ]

\* listSchools({page, limit, __token}) and listClassrooms({schoolId, page,
\* limit, __token}) on a collection with `total` matching documents
ListCall ==
  /\ \E fn \in {"listSchools", "listClassrooms"}, total \in Totals,
        page \in PageNumbers, limit \in PageLimits :
       called' = [ fn |-> fn, args |-> [total |-> total, page |-> page, limit |-> limit],
                   result |-> Paginate(total, page, limit) ]
  /\ UNCHANGED <<buildVars, reqVars, entVars, loaded, room, updating, signup>>

NextList == ListCall

SpecList == InitServe /\ [][NextList]_vars

(* end of the program model *)


(***************************************************************************)
(* Properties of the dispatcher (checked under Spec).                      *)
(***************************************************************************)
Arrived(r) == request[r] # NoRequest

\* the route of the request passed the validation of mw
RouteValid(r) == Arrived(r) /\ bolt[r].state # "None"

\* the middleware stack of the route of a request with a valid route
RouteStack(r) == mwsStack[<<request[r].moduleName, request[r].fnName>>]

Range(q) == {q[i] : i \in DOMAIN q}

\* the fields of the request body
BodyOf(r) == IF request[r].body = Undefined THEN EmptyObj ELSE request[r].body[2]

\* the enrichment values a unit can continue with on the request
Enrichments(unit, r) == {o[2] : o \in {x \in UnitOutcomes(unit, request[r]) : x[1] = "next"}}

C2_ShortCircuitStops ==
  \A r \in Reqs :
    bolt[r].state = "ShortCircuited" =>
      /\ ran[r] = SubSeq(bolt[r].stack, 1, bolt[r].index)
      /\ calls[r] = <<>>
      /\ handler[r] = "idle"
      /\ outcomes[r] = <<>>

\* C2 witness: a run stopped by a unit that was not the last of its stack,
\* while the server went on with another request
C2_Witness ==
  \E r, q \in Reqs :
    /\ bolt[r].state = "ShortCircuited"
    /\ bolt[r].index < Len(bolt[r].stack)
    /\ Len(sent[r]) = 1
    /\ q # r /\ handler[q] = "returned"

\* the tokens the request presents, whatever the source
Presented(r) ==
  LET req == request[r]
  IN (IF req.authorization # Undefined /\ req.authorization[2] = "Bearer"
        /\ req.authorization[3] # ""
      THEN {req.authorization[3]} ELSE {})
     \cup (IF req.token # Undefined /\ req.token # Str("") THEN {req.token[2]} ELSE {})
     \cup (IF req.qtoken # Undefined /\ req.qtoken # Str("") THEN {req.qtoken[2]} ELSE {})

\* the payload the server signed into the one valid token
DecodedTokA ==
  Obj([userId |-> Str("u1"), role |-> Str("school_admin"), type |-> Str("access")])

TokenUnitRan(r) == "__token" \in Range(ran[r])

\* C3: on a route whose stack holds __token, a request without a credential
\* or with an invalid or expired one gets an envelope with ok=false and
\* code=401 and its handler is never invoked; with a valid credential the
\* handler, when invoked, receives the decoded payload under __token together
\* with the body fields, and on a route with no further unit it is invoked.
C3_TokenGate ==
  \A r \in Reqs :
    (RouteValid(r) /\ "__token" \in Range(RouteStack(r))) =>
      /\ (Presented(r) \cap {"tokA"} = {}) =>
           /\ calls[r] = <<>>
           /\ TokenUnitRan(r) =>
                /\ Len(sent[r]) = 1
                /\ sent[r][1].status = Num(401)
                /\ sent[r][1].body.ok = Bool(FALSE)
                /\ sent[r][1].body.code = Num(401)
      /\ (Presented(r) = {"tokA"} /\ TokenUnitRan(r)) =>
           /\ \A i \in DOMAIN sent[r] : sent[r][i].status # Num(401)
           /\ bolt[r].results["__token"] = DecodedTokA
           /\ RouteStack(r) = <<"__token">> => Len(calls[r]) = 1
           /\ calls[r] # <<>> =>
                /\ calls[r][1]["__token"] = DecodedTokA
                /\ \A k \in (DOMAIN BodyOf(r)) \ {"__token", "__device", "res"} :
                     calls[r][1][k] = BodyOf(r)[k]

\* C3 witness: one request refused with 401 for an expired token and one
\* whose handler received the decoded payload and the body field
C3_Witness ==
  \E r, q \in Reqs :
    /\ RouteValid(r) /\ Presented(r) = {"expired"} /\ TokenUnitRan(r)
    /\ Len(sent[r]) = 1 /\ sent[r][1].status = Num(401)
    /\ RouteValid(q) /\ Presented(q) = {"tokA"}
    /\ Len(calls[q]) = 1
    /\ calls[q][1]["__token"] = DecodedTokA
    /\ calls[q][1]["name"] = Str("Foo")

\* the handler answered the request itself (selfHandleResponse)
SelfHandled(r) ==
  /\ outcomes[r] # <<>>
  /\ outcomes[r][1][1] = "obj"
  /\ Truthy(Get(outcomes[r][1][2], "selfHandleResponse"))

\* the number of responses the request has got: the envelopes written to
\* its res, and the handler's own response when it handled it itself
Responses(r) == Len(sent[r]) + (IF SelfHandled(r) THEN 1 ELSE 0)

\* the request has reached the end of its processing
Terminal(r) ==
  /\ Arrived(r)
  /\ \/ bolt[r].state \in {"None", "ShortCircuited", "Failed"}
     \/ bolt[r].state = "Completed" /\ handler[r] = "returned"

C4_AtMostOne ==
  \A r \in Reqs : Responses(r) <= 1

UnknownModule(r) == Arrived(r) /\ request[r].moduleName \notin {"thing"}

\* the request's route is not in the route table
InvalidRoute(r) ==
  /\ Arrived(r)
  /\ \/ UnknownModule(r)
     \/ ~(\E i \in DOMAIN httpExposed :
            /\ HttpMethodOf(httpExposed[i]) = request[r].method
            /\ ManagerMethodOf(httpExposed[i]) = request[r].fnName)

\* C6: a request whose route is invalid gets one failure envelope with
\* ok=false, with the message "module <name> not found" when the module is
\* unknown, and no middleware unit and no handler runs for it.
C6_InvalidRouteRefused ==
  \A r \in Reqs :
    InvalidRoute(r) =>
      /\ Len(sent[r]) = 1
      /\ sent[r][1].body.ok = Bool(FALSE)
      /\ UnknownModule(r) =>
           sent[r][1].body.message
             = Tmpl("module ${moduleName} not found", request[r].moduleName, "")
      /\ bolt[r].state = "None"
      /\ ran[r] = <<>>
      /\ calls[r] = <<>>

\* the request's handler returned `o`, which leaves the answer to the
\* normalizer
Returned(r, o) ==
  /\ outcomes[r] = <<o>>
  /\ o[1] # "throw"
  /\ ~SelfHandled(r)

\* the fields of a returned value, {} for a handler that returned nothing
FieldsOf(o) == IF o[1] = "obj" THEN o[2] ELSE EmptyObj

\* a successful result: one with neither errors nor error
Successful(o) ==
  /\ ~Truthy(Get(FieldsOf(o), "errors"))
  /\ ~Truthy(Get(FieldsOf(o), "error"))

\* a result whose errors is a list of strings
StringErrors(o) ==
  /\ Get(FieldsOf(o), "errors")[1] = "arr"
  /\ \A i \in DOMAIN Get(FieldsOf(o), "errors")[2] :
       Get(FieldsOf(o), "errors")[2][i][1] = "str"

\* C9 as stated: every successful result gives {ok:true, code:200,
\* data:<result>, timestamp} and every list of string errors gives
\* {ok:false, code:400, errors:[{message}], timestamp}.
C9_FixedCodes ==
  \A r \in Reqs : \A o \in HandlerResults :
    Returned(r, o) =>
      /\ Len(sent[r]) = 1
      /\ Successful(o) =>
           /\ sent[r][1].body.ok = Bool(TRUE)
           /\ sent[r][1].body.code = Num(200)
           /\ sent[r][1].body.data = Obj(FieldsOf(o))
           /\ sent[r][1].body.timestamp = Timestamp
      /\ StringErrors(o) =>
           /\ sent[r][1].body.ok = Bool(FALSE)
           /\ sent[r][1].body.code = Num(400)
           /\ "errors" \in DOMAIN sent[r][1].body
           /\ sent[r][1].body.errors
                = Arr([i \in DOMAIN o[2].errors[2] |->
                         Obj([message |-> o[2].errors[2][i]])])
           /\ sent[r][1].body.timestamp = Timestamp

\* the code of the envelope: the result's own code when it carries a truthy
\* one, the default otherwise
CodeOr(o, default) ==
  IF "code" \in DOMAIN FieldsOf(o) /\ FieldsOf(o).code \notin {Num(0), Undefined}
  THEN FieldsOf(o).code ELSE Num(default)

\* C9: the normalizer maps a successful handler result to the envelope
\* {ok:true, code, data:<the result>, timestamp} and a result with a
\* non-empty list of string errors to {ok:false, code, errors:[{message}],
\* timestamp}, where code is the result's own code when it carries one and
\* 200, respectively 400, when it does not; an empty error list gives
\* ok=false and no errors field.
C9_NormalizerEnvelope ==
  \A r \in Reqs : \A o \in HandlerResults :
    Returned(r, o) =>
      /\ Len(sent[r]) = 1
      /\ Successful(o) =>
           /\ sent[r][1].body.ok = Bool(TRUE)
           /\ sent[r][1].body.code = CodeOr(o, 200)
           /\ sent[r][1].status = CodeOr(o, 200)
           /\ sent[r][1].body.data = Obj(FieldsOf(o))
           /\ sent[r][1].body.timestamp = Timestamp
           /\ "errors" \notin DOMAIN sent[r][1].body
      /\ StringErrors(o) =>
           /\ sent[r][1].body.ok = Bool(FALSE)
           /\ sent[r][1].body.code = CodeOr(o, 400)
           /\ sent[r][1].status = CodeOr(o, 400)
           /\ sent[r][1].body.timestamp = Timestamp
           /\ IF o[2].errors[2] = <<>>
              THEN "errors" \notin DOMAIN sent[r][1].body
              ELSE /\ "errors" \in DOMAIN sent[r][1].body
                   /\ sent[r][1].body.errors
                        = Arr([i \in DOMAIN o[2].errors[2] |->
                                 Obj([message |-> o[2].errors[2][i]])])

\* C9 witness: one request answered 201 with the result as data, another
\* answered 400 with the string error wrapped in {message}
C9_Witness ==
  \E r, q \in Reqs :
    /\ Returned(r, Obj([ok |-> Bool(TRUE), code |-> Num(201),
                        data |-> Obj([id |-> Str("s1")])]))
    /\ Len(sent[r]) = 1 /\ sent[r][1].body.code = Num(201)
    /\ Returned(q, Obj([errors |-> Arr(<<Str("x")>>)]))
    /\ Len(sent[q]) = 1 /\ sent[q][1].body.code = Num(400)
    /\ sent[q][1].body.errors = Arr(<<Obj([message |-> Str("x")])>>)

\* the handler of the request threw, or its promise rejected
Threw(r) == outcomes[r] # <<>> /\ outcomes[r][1][1] = "throw"

\* the one envelope a thrown handler is answered with: it is made of the
\* method's name alone
GenericFailure(fnName) ==
  [ status |-> Num(400),
    body   |-> [ ok        |-> Bool(FALSE),
                 code      |-> Num(400),
                 data      |-> Obj(EmptyObj),
                 timestamp |-> Timestamp,
                 message   |-> Tmpl("${fnName} failed to execute", fnName, "") ] ]

\* the handler's own catch returned for an exception with message m
CaughtInside(r, m) == outcomes[r] = <<RegisterUserCatch(m)>>

\* the exception raised in the request's handler had message m
RaisedIn(r, m) == outcomes[r] = << <<"throw", m>> >> \/ CaughtInside(r, m)

\* the envelope carries the text m, as its message or in a field of one of
\* its errors
Mentions(env, m) ==
  \/ "message" \in DOMAIN env.body /\ env.body.message = Str(m)
  \/ /\ "errors" \in DOMAIN env.body
     /\ \E i \in DOMAIN env.body.errors[2] :
          \E k \in DOMAIN env.body.errors[2][i][2] :
            env.body.errors[2][i][2][k] = Str(m)

\* C10: an exception raised in a handler is answered with exactly one
\* failure envelope with ok=false whose content does not carry the
\* exception's message.
C10_HandlerExceptionGeneric ==
  \A r \in Reqs : \A m \in ErrorMessages :
    RaisedIn(r, m) =>
      /\ Len(sent[r]) = 1
      /\ sent[r][1].body.ok = Bool(FALSE)
      /\ ~Mentions(sent[r][1], m)

\* an exception that leaves the handler is answered by _exec's catch with
\* the one envelope made of the method's name, and the step in which it is
\* thrown leaves the process serving
ExecBoundaryContains ==
  /\ [](\A r \in Reqs :
          Threw(r) => sent[r] = <<GenericFailure(request[r].fnName)>>)
  /\ [][\A r \in Reqs : (~Threw(r) /\ Threw(r)') => (alive /\ alive')]_vars

\* C11: within one pipeline run the units execute strictly one after the
\* other: at most one unit of the run is executing, it is the unit at the
\* head of the run, and every unit before it has resolved, in stack order,
\* with its enrichment value.
C11_StrictlySequential ==
  \A r \in Reqs :
    /\ Cardinality(executing[r]) <= 1
    /\ \A u \in executing[r] :
         /\ bolt[r].state = "Running"
         /\ u = bolt[r].stack[bolt[r].index]
    /\ bolt[r].state = "Running" =>
         /\ ran[r] = SubSeq(bolt[r].stack, 1, bolt[r].index - 1)
         /\ \A i \in 1..(bolt[r].index - 1) :
              bolt[r].stack[i] \in DOMAIN bolt[r].results

\* C11 witness: the last unit of a four-unit run is executing after the
\* three before it have resolved
C11_Witness ==
  \E r \in Reqs :
    /\ executing[r] = {"__headers"}
    /\ ran[r] = <<"__device", "__token", "__query">>
    /\ DOMAIN bolt[r].results = {"__device", "__token", "__query"}

\* everything the server holds for one request
Local(r) ==
  <<request[r], bolt[r], ran[r], executing[r], calls[r], handler[r],
    outcomes[r], sent[r]>>

\* the envelopes a request can be answered with, given its own req and the
\* way its own handler settled
OwnEnvelopes(r) ==
  (IF MwRoute(request[r])[1] = "dispatch"
   THEN {Dispatch(MwRoute(request[r])[2])} ELSE {})
  \cup {Dispatch(o[2]) : o \in {x \in UNION {UnitOutcomes(u, request[r]) : u \in Range(ran[r])} :
                                   x[1] = "dispatch"}}
  \cup {Dispatch(TokenMwCatch)}
  \cup {Dispatch(Normalize(Exec(request[r].fnName, outcomes[r][i]))[2]) :
          i \in {j \in DOMAIN outcomes[r] :
                   Normalize(Exec(request[r].fnName, outcomes[r][j]))[1] = "dispatch"}}

\* C12: for every interleaving of concurrent requests each run has its own
\* stack and results: the run of a request goes through the stack of that
\* request's route, the values kept in it and handed to the handler were
\* produced by its units from that request, the response object handed on
\* is that request's, what is written for a request is an answer to that
\* request, the route tables are left as built, and a step of the server
\* changes what it holds for one request only.
C12_RunsIndependent ==
  /\ [](\A r \in Reqs :
          /\ RouteValid(r) =>
               /\ bolt[r].stack = preStack \o RouteStack(r)
               /\ DOMAIN bolt[r].results \subseteq Range(ran[r])
               /\ \A u \in DOMAIN bolt[r].results :
                    bolt[r].results[u] \in Enrichments(u, r)
          /\ \A i \in DOMAIN calls[r] :
               /\ calls[r][i]["res"] = <<"res", r>>
               /\ DOMAIN calls[r][i] =
                    (DOMAIN BodyOf(r)) \cup Range(bolt[r].stack) \cup {"res"}
               /\ \A u \in Range(bolt[r].stack) :
                    calls[r][i][u] \in Enrichments(u, r)
          /\ \A i \in DOMAIN sent[r] : sent[r][i] \in OwnEnvelopes(r))
  /\ [][/\ UNCHANGED <<methodMatrix, mwsStack>>
        /\ \A r, q \in Reqs :
             (Local(r)' # Local(r) /\ Local(q)' # Local(q)) => r = q]_vars

\* C12 witness: while one request's run is suspended in its third unit,
\* another request of another route has had its handler invoked with its
\* own token payload and body
C12_Witness ==
  \E r, q \in Reqs :
    /\ r # q
    /\ executing[q] = {"__query"}
    /\ request[r].fnName = "createThing"
    /\ Len(calls[r]) = 1
    /\ calls[r][1]["__token"] = DecodedTokA
    /\ "__query" \notin DOMAIN calls[r][1]

\* the terminal states of a pipeline run
TerminalStates == {"ShortCircuited", "Failed", "Completed"}

C16_SelfHandleOptOut ==
  \A r \in Reqs :
    handler[r] = "returned" =>
      /\ Len(outcomes[r]) = 1
      /\ SelfHandled(r) => sent[r] = <<>>
      /\ ~SelfHandled(r) => Len(sent[r]) = 1

\* C16 witness: one request left to its handler's own response and one
\* answered for a handler that returned nothing or null
C16_Witness ==
  \E r, q \in Reqs :
    /\ handler[r] = "returned" /\ SelfHandled(r) /\ sent[r] = <<>>
    /\ handler[q] = "returned" /\ outcomes[q] \in {<<Undefined>>, << <<"null">> >>}
    /\ Len(sent[q]) = 1


\* C17: once logoutUser has succeeded for a token, a later request presenting
\* that token on a __token-protected route is answered 401 and its handler is
\* not invoked.
C17_LoggedOutTokenRejected ==
  (lastOp.protected /\ lastOp.afterLogout)
    => (lastOp.status = Num(401) /\ ~lastOp.invoked)

\* the operations of the School manager
SchoolOps ==
  {"createSchool", "listSchools", "getSchoolById", "updateSchool", "deleteSchool",
   "getSchoolStats"}

\* the role a valid token presented with the last request carries, "" when
\* the token is not valid
RolePresented ==
  LET decoded == DecodedToken(lastOp.token)
  IN IF Truthy(decoded) THEN decoded[2].role[2] ELSE ""

\* C18: every school operation called with a valid token whose role is not
\* superadmin returns 403 and neither reads nor writes school data.
C18_SchoolOpsSuperadminOnly ==
  (lastOp.op \in SchoolOps /\ RolePresented \notin {"", "superadmin"})
    => (lastOp.status = Num(403) /\ "school" \notin lastOp.touched)

\* the operations of the Classroom manager
ClassroomOps ==
  {"createClassroom", "updateClassroom", "getClassroomById", "listClassrooms",
   "deleteClassroom", "getClassroomEnrollment", "checkClassroomAvailability"}

\* the school that owns the classroom the last request was about
OwningSchool ==
  IF lastOp.op \in {"createClassroom", "listClassrooms"}
  THEN Str(lastOp.arg1)
  ELSE classrooms[lastOp.target].schoolId

\* the last request was a classroom operation by a school_admin on a
\* classroom that exists
SchoolAdminOnClassroom ==
  /\ lastOp.op \in ClassroomOps
  /\ RolePresented = "school_admin"
  /\ lastOp.status # Num(404)

\* C19: a classroom operation by a school_admin whose token's schoolId differs
\* from the owning school is denied with 403, and one by a school_admin with a
\* login token for a classroom of the assigned school is not denied with 403.
C19_SchoolAdminOwnSchoolOnly ==
  SchoolAdminOnClassroom =>
    LET token == DecodedToken(lastOp.token)[2]
        admin == users[Holder(lastOp.token)]
    IN /\ Get(token, "schoolId") # OwningSchool => lastOp.status = Num(403)
       /\ admin.schoolId = OwningSchool => lastOp.status # Num(403)

\* C19, first half alone: an operation on a classroom of a school other than
\* the one the school_admin is assigned to is denied with 403
C19_OtherSchoolDenied ==
  SchoolAdminOnClassroom =>
    (users[Holder(lastOp.token)].schoolId # OwningSchool => lastOp.status = Num(403))

\* the last request was changePassword by the account itself, registered and
\* active, with its current password and a valid new one
OwnPasswordChange ==
  /\ lastOp.op = "changePassword"
  /\ lastOp.token \in LoginTokens
  /\ Holder(lastOp.token) = lastOp.target
  /\ users[lastOp.target].status = Str("active")
  /\ lastOp.arg1 = lastOp.holds
  /\ ValidPassword(lastOp.arg2)

\* the account a username belongs to
AccountOf(username) == FindOne(users, "username", Str(username))

\* C20: changePassword by a registered active user with the correct current
\* password and a valid new one succeeds; afterwards loginUser succeeds with
\* the new password and fails with any other; the stored password is the one
\* registered until a change succeeds, so a wrong current password leaves it
\* as it was.
C20_ChangePasswordTakesEffect ==
  /\ OwnPasswordChange => lastOp.status = Num(200)
  /\ (lastOp.op = "loginUser" /\ AccountOf(lastOp.target) # "")
       => (lastOp.status = Num(200)) = (lastOp.arg1 = CurrentPassword(AccountOf(lastOp.target)))
  /\ \A u \in DOMAIN users : users[u].password = Hash(CurrentPassword(u))

\* C20, last part alone: changePassword with a wrong current password leaves
\* the stored password unchanged
C20_WrongPasswordChangesNothing ==
  (lastOp.op = "changePassword" /\ lastOp.arg1 # lastOp.holds)
    => users[lastOp.target].password = Hash(lastOp.holds)

\* the errors dispatch was called with, and the body it sent
ErrorsGiven == Get(called.args, "errors")

BodySent == called.result.body

BearerYield ==
  IF called.args.authorization # Undefined /\ called.args.authorization[2] = "Bearer"
  THEN called.args.authorization[3] ELSE ""

HeaderYield == IF called.args.token = Undefined THEN "" ELSE called.args.token[2]

QueryYield == IF called.args.qtoken = Undefined THEN "" ELSE called.args.qtoken[2]

\* C22: the token middleware takes the Bearer token when the Authorization
\* header yields one, otherwise the token header, otherwise the token query
\* parameter; a lower source is used only when every higher one yields
\* nothing; when no source yields a token the answer is a 401.
C22_TokenPrecedence ==
  called.fn = "__token" =>
    /\ BearerYield # "" => called.result.token = BearerYield
    /\ (BearerYield = "" /\ HeaderYield # "") => called.result.token = HeaderYield
    /\ (BearerYield = "" /\ HeaderYield = "" /\ QueryYield # "")
         => called.result.token = QueryYield
    /\ (BearerYield = "" /\ HeaderYield = "" /\ QueryYield = "")
         => /\ called.result.outcome[1] = "dispatch"
            /\ called.result.outcome[2].code = Num(401)
            /\ called.result.outcome[2].ok = Bool(FALSE)
    /\ called.result.outcome[1] = "next"
         <=> (called.result.token # "" /\ VerifyToken(called.result.token) # <<"null">>)

\* C22 witness: a request with a forged Bearer token, a valid token header and
\* a valid query token was refused on the Bearer token, and one with no
\* Bearer token and an empty token header went on with the query token
C22_Witness ==
  /\ called.fn = "__token"
  /\ \/ /\ BearerYield = "forged" /\ HeaderYield = "tokA" /\ QueryYield = "tokA"
        /\ called.result.outcome[1] = "dispatch"
     \/ /\ called.args.authorization[1] = "hdr" /\ BearerYield = ""
        /\ called.args.token = Str("") /\ QueryYield = "tokA"
        /\ called.result.outcome[1] = "next"

\* the place of a manager in the order of loading, 0 while it is not loaded
LoadedAt(name) ==
  IF name \in Loaded THEN CHOOSE i \in DOMAIN loaded : loaded[i] = name ELSE 0

\* name a was loaded before name b when b is loaded at all
LoadedBefore(a, b) == b \in Loaded => (a \in Loaded /\ LoadedAt(a) < LoadedAt(b))

\* C23: managers are loaded in the order ResponseDispatcher, TokenManager,
\* entity managers, middlewares, API handler (so the middlewares are loaded
\* after every entity manager), and when a request is handled
\* responseDispatcher, token and mwsExec are defined.
C23_DocumentedLoadOrder ==
  /\ LoadedBefore("responseDispatcher", "token")
  /\ \A key \in EntityManagers : LoadedBefore("token", key)
  /\ \A key \in EntityManagers : LoadedBefore(key, "mwsRepo")
  /\ LoadedBefore("mwsRepo", "userApi")
  /\ called.fn = "request"
       => {"responseDispatcher", "token", "mwsExec"} \subseteq called.result.defined

\* C23, the part about requests alone (holds): whenever a request is handled,
\* responseDispatcher, token and mwsExec are defined
C23_DefinedWhenHandling ==
  called.fn = "request"
    => {"responseDispatcher", "token", "mwsExec"} \subseteq called.result.defined

C24_RefusalChangesNothing ==
  [][(updating.pc = "found" /\ updating'.pc = "idle"
      /\ updating.capacity # 0 /\ updating.capacity < updating.enrolledCount)
       => (room' = room /\ called'.result[2].code = Num(400))]_vars

\* the three facts about the classroom document
RoomConsistent ==
  /\ room.enrolledCount = Len(room.enrolledStudents)
  /\ \A i, j \in DOMAIN room.enrolledStudents :
       room.enrolledStudents[i] = room.enrolledStudents[j] => i = j
  /\ room.enrolledCount <= room.capacity

\* the student an enrollStudent or unenrollStudent step is called with
StudentGiven == called'.args[1]

\* C29: enrolledCount = |enrolledStudents|, no duplicate student id and
\* enrolledCount <= capacity hold after every sequence of enrollStudent and
\* unenrollStudent calls on a classroom that starts with them; enrollStudent
\* returns false and changes nothing when the student is already enrolled or
\* the classroom is full (and enrolls otherwise); unenrollStudent returns
\* false and changes nothing when the student is not enrolled (and removes
\* the student otherwise).
C29_EnrollmentConsistent ==
  /\ []RoomConsistent
  /\ [][/\ (room # NoRoom /\ called'.fn = "enrollStudent")
             => IF \/ IsEnrolled(room.enrolledStudents, StudentGiven)
                   \/ room.enrolledCount >= room.capacity
                THEN called'.result = Bool(FALSE) /\ room' = room
                ELSE /\ called'.result = Bool(TRUE)
                     /\ room'.enrolledStudents = Append(room.enrolledStudents, StudentGiven)
                     /\ room'.enrolledCount = room.enrolledCount + 1
                     /\ room'.capacity = room.capacity
        /\ (room # NoRoom /\ called'.fn = "unenrollStudent")
             => IF ~IsEnrolled(room.enrolledStudents, StudentGiven)
                THEN called'.result = Bool(FALSE) /\ room' = room
                ELSE /\ called'.result = Bool(TRUE)
                     /\ ~IsEnrolled(room'.enrolledStudents, StudentGiven)
                     /\ room'.enrolledCount = room.enrolledCount - 1
                     /\ room'.capacity = room.capacity]_vars

\* C29 witness: enrollStudent was called for a student who is not enrolled in
\* a full classroom that holds two others, returned false and enrolled nobody
C29_Witness ==
  /\ called.fn = "enrollStudent"
  /\ called.result = Bool(FALSE)
  /\ ~IsEnrolled(room.enrolledStudents, called.args[1])
  /\ room.capacity = 2 /\ room.enrolledCount = 2

\* the calls that have returned without creating a user
SignupsRefused == {c \in Signups : signup[c].pc = "done" /\ signup[c].status # 200}

\* C25: after any interleaving of concurrent registerUser calls there is at
\* most one user per email and per username, and every call that created no
\* user (the email or username was registered already, or it lost the race)
\* received a 409.
C25_LosersReceive409 ==
  /\ \A a, b \in DOMAIN users :
       (users[a].email = users[b].email \/ users[a].username = users[b].username)
         => a = b
  /\ \A c \in SignupsRefused : signup[c].status = 409

\* C25, the first half alone (holds): at most one user per email and per
\* username, and a call for a registered email or username creates no user
C25_OneUserPerEmailAndUsername ==
  /\ \A a, b \in DOMAIN users :
       (users[a].email = users[b].email \/ users[a].username = users[b].username)
         => a = b
  /\ \A c \in Signups :
       (signup[c].pc = "done" /\ signup[c].status = 200)
         => \E id \in DOMAIN users :
              /\ users[id].email = Str(signup[c].email)
              /\ users[id].username = Str(signup[c].username)

\* the __token unit of the request called next with the decoded payload
TokenContinued(r) ==
  /\ bolt[r].state # "None"
  /\ "__token" \in DOMAIN bolt[r].results
  /\ bolt[r].results["__token"] = VerifyToken(ExtractToken(request[r]))

\* the responses the __token unit writes itself: its 401s and the 500 of its
\* catch-all
TokenResponses(r) ==
  { i \in DOMAIN sent[r] :
      \/ sent[r][i] = Dispatch(TokenMwCatch)
      \/ /\ TokenMw(request[r])[1] = "dispatch"
         /\ sent[r][i] = Dispatch(TokenMw(request[r])[2]) }

\* C26: each invocation of the token middleware either calls next once with
\* the decoded payload and writes no response, or writes exactly one error
\* response and never calls next; never both, also when the continuation
\* raises.
C26_TokenOneOutcome ==
  \A r \in Reqs :
    "__token" \in Range(ran[r]) =>
      IF TokenContinued(r) THEN TokenResponses(r) = {}
      ELSE Cardinality(TokenResponses(r)) = 1

\* two requests that are the same but for their bodies
DifferInBodyOnly(r, q) ==
  /\ Arrived(r) /\ Arrived(q)
  /\ request[r].body # request[q].body
  /\ [request[r] EXCEPT !.body = Undefined] = [request[q] EXCEPT !.body = Undefined]

\* C27: on a route whose stack holds middleware M the handler receives under
\* key M the enrichment value M produced, whatever the body holds under that
\* name: two requests that differ only in their bodies give their handlers
\* the same argument under M.
C27_EnrichmentNotFromBody ==
  \A r \in Reqs :
    \A i \in DOMAIN calls[r] :
      \A m \in Range(bolt[r].stack) :
        /\ m \in DOMAIN calls[r][i]
        /\ calls[r][i][m] = bolt[r].results[m]
        /\ m = "__token" => calls[r][i][m] = VerifyToken(ExtractToken(request[r]))
        /\ \A q \in Reqs : \A j \in DOMAIN calls[q] :
             DifferInBodyOnly(r, q) => calls[q][j][m] = calls[r][i][m]

\* C27 witness: two requests that differ only in a body field named __token
\* have both reached the handler, which got the decoded payload under __token
\* in both
C27_Witness ==
  \E r, q \in Reqs :
    /\ DifferInBodyOnly(r, q)
    /\ "__token" \in DOMAIN BodyOf(q) /\ "__token" \notin DOMAIN BodyOf(r)
    /\ Len(calls[r]) = 1 /\ Len(calls[q]) = 1
    /\ calls[q][1]["__token"] = DecodedTokA
    /\ calls[r][1]["__token"] = DecodedTokA

\* C28: the middleware stack of a route never holds a middleware name more
\* often than the handler's parameter list declares it, also when the method
\* is exposed under more than one verb or declared more than once.
C28_StackWithinDeclaration ==
  phase = "ok" =>
    \A key \in DOMAIN mwsStack :
      \A name \in Range(mwsStack[key]) :
        Occurrences(mwsStack[key], name) <= Occurrences(HandlerParams[key[2]], name)

\* a paginated list operation was called
Listed == called.fn \in {"listSchools", "listClassrooms"}

\* the items of page p of the listing that was called, with the same limit
PageItems(p) == Paginate(called.args.total, p, called.args.limit).items

\* C30: the offset of page p is (p-1) times the effective page size
\* min(limit, 100) reported in pagination.limit, so that the pages
\* 1..pagination.pages requested with the same limit return every matching
\* item exactly once.
C30_PagesCoverOnce ==
  Listed =>
    /\ called.result.pagination.limit = MathMin(called.args.limit, maxLimit)
    /\ called.result.skip = (called.args.page - 1) * called.result.pagination.limit
    /\ LET pages == 1..called.result.pagination.pages
       IN /\ UNION {PageItems(p) : p \in pages} = 1..called.args.total
          /\ \A p, q \in pages : p # q => PageItems(p) \cap PageItems(q) = {}

\* C30 for limits up to the cap (holds): with limit <= 100 the offset is
\* (p-1) times pagination.limit and the pages cover every item exactly once
C30_CoverOnceWithinCap ==
  (Listed /\ called.args.limit <= maxLimit) =>
    /\ called.result.skip = (called.args.page - 1) * called.result.pagination.limit
    /\ LET pages == 1..called.result.pagination.pages
       IN /\ UNION {PageItems(p) : p \in pages} = 1..called.args.total
          /\ \A p, q \in pages : p # q => PageItems(p) \cap PageItems(q) = {}

=============================================================================
